---- MODULE Spec2Model ----
(***************************************************************************)
(* A model of Code/Scri.cpp of GWFrames: spin-weighted fields on the       *)
(* sphere (DataGrid, Modes), the boost rotor, slices of null infinity      *)
(* (SliceModes), the time series of slices (Scri) and the supermomentum    *)
(* track (SuperMomenta) with its Moreschi iteration.                       *)
(*                                                                         *)
(* One call is in progress at a time (the code is single-threaded):        *)
(*   self  the object the member function is called on                     *)
(*   args  the arguments of the call; reference arguments are written back *)
(*   pc    the position inside the running call                            *)
(*   loc   the local variables of the running call                         *)
(*   ret   how the last call ended: a returned value or a thrown error     *)
(* Times and samples are exact numbers standing for the doubles of the     *)
(* code.  Indices are the 0-based indices of the C++ source.               *)
(***************************************************************************)
EXTENDS Integers, Sequences, FiniteSets, TLC

VARIABLES self, args, pc, loc, ret

vars == <<self, args, pc, loc, ret>>

-----------------------------------------------------------------------------
(* Bounds of the model *)

\* longest time series of a Scri / SuperMomenta object
MaxNTimes == 8
\* largest ellMax of the slices of a series
MaxEll == 1
\* largest size of the supertranslation's deviation from its mean on the grid
MaxShift == 4
\* largest NTimes() and EllMax() of an input Waveform
MaxWaveformNTimes == 2
MaxWaveformEll == 1

-----------------------------------------------------------------------------
(* Helpers *)

Max(a, b) == IF a >= b THEN a ELSE b
Min(a, b) == IF a <= b THEN a ELSE b

\* x[i] of a std::vector: element i, counted from 0
At(x, i) == x[i + 1]

\* a std::vector holds its elements: the sequence of the values of x
Vector(x) == x \o <<>>

\* the error kinds of Errors.hpp used in Scri.cpp
NotYetImplemented == "GWFrames_NotYetImplemented"
ValueError == "GWFrames_ValueError"
VectorSizeMismatch == "GWFrames_VectorSizeMismatch"
BadWaveformInformation == "GWFrames_BadWaveformInformation"

Return(v) == [kind |-> "return", error |-> "none", value |-> v]
Throw(e) == [kind |-> "throw", error |-> e, value |-> <<>>]
NoCall == [kind |-> "none", error |-> "none", value |-> <<>>]

-----------------------------------------------------------------------------
(* DataGrid sizes *)

\* DataGrid::DataGrid(Modes M, N_theta, N_phi) and the boosted-grid
\* constructor: n_theta = n_phi = max(N, 2*M.EllMax()+1)
DataGridSize(N, EllMaxOfModes) == Max(N, 2 * EllMaxOfModes + 1)

\* the size check shared by DataGrid::operator* / + - : the operands'
\* n_theta and n_phi must agree
GridSizesDiffer(A_n_theta, A_n_phi, B_n_theta, B_n_phi) ==
    A_n_theta # B_n_theta \/ A_n_phi # B_n_phi

-----------------------------------------------------------------------------
(* Scri::BMSTransformation and SuperMomenta::BMSTransform *)

\* the time series of an object: strictly increasing, as the waveform's T()
TimeSteps == {<<1>>, <<1, 2>>}

RECURSIVE TimesUpTo(_, _)
TimesUpTo(n, steps) ==
    IF n = 1 THEN <<0>>
    ELSE LET p == TimesUpTo(n - 1, steps)
         IN  Append(p, p[n - 1] + steps[((n - 2) % Len(steps)) + 1])

TimeSeries ==
    { TimesUpTo(n, steps) : n \in 1..MaxNTimes, steps \in TimeSteps }

\* the objects a BMS transformation is called on: the series t and
\* slices[0].EllMax() (Scri) or Psi[0].EllMax() (SuperMomenta)
BMSObjects ==
    [class : {"Scri", "SuperMomenta"}, t : TimeSeries, EllMax : 1..MaxEll]

\* the samples spinsfast_salm2map can hand back for the spin-0 delta on an
\* n x n grid: the value c everywhere, or c with one sample moved by d
KeySamples(n, nScanned) == {0, nScanned * nScanned - 1, n * n - 1}

DeltaGrids(n, nScanned, c) ==
    {[i \in 1..(n * n) |-> c]} \cup
    { [i \in 1..(n * n) |-> IF i = k + 1 THEN c + d ELSE c] :
        k \in KeySamples(n, nScanned), d \in (-MaxShift..MaxShift) \ {0} }

\* the loop of lines 954-960 / 1051-1057: the largest and the smallest of the
\* first n_theta*n_phi samples of u
RECURSIVE ScanMax(_, _, _, _)
ScanMax(u, i, n, uMax) ==
    IF i >= n THEN uMax
    ELSE ScanMax(u, i + 1, n, IF At(u, i) > uMax THEN At(u, i) ELSE uMax)

RECURSIVE ScanMin(_, _, _, _)
ScanMin(u, i, n, uMin) ==
    IF i >= n THEN uMin
    ELSE ScanMin(u, i + 1, n, IF At(u, i) < uMin THEN At(u, i) ELSE uMin)

\* if(uMin<t[0] || uMax>t.back())
OutOfRange(t, uMin, uMax) == uMin < At(t, 0) \/ uMax > At(t, Len(t) - 1)

\* while(t[iMax]>uMax && iMax>0) { --iMax; }
RECURSIVE WhileDecrement(_, _, _)
WhileDecrement(t, uMax, iMax) ==
    IF At(t, iMax) > uMax /\ iMax > 0 THEN WhileDecrement(t, uMax, iMax - 1)
    ELSE iMax

\* while(t[iMin]<uMin && iMin<int(t.size())-1) { ++iMin; }
RECURSIVE WhileIncrement(_, _, _)
WhileIncrement(t, uMin, iMin) ==
    IF At(t, iMin) < uMin /\ iMin < Len(t) - 1 THEN WhileIncrement(t, uMin, iMin + 1)
    ELSE iMin

\* iMin = std::max(0, iMin-3)
WindowMin(t, uMin) == Max(0, WhileIncrement(t, uMin, 0) - 3)

\* iMax = std::min(int(t.size())-1, std::max(iMin+7, iMax+3))
WindowMax(t, uMin, uMax) ==
    Min(Len(t) - 1,
        Max(WindowMin(t, uMin) + 7, WhileDecrement(t, uMax, Len(t) - 1) + 3))

\* the times a call can ask for: from one before the series to one after it
TimesAround(t) == (At(t, 0) - 1)..(At(t, Len(t) - 1) + 1)

\* Modes::pow is declared in Scri.hpp; OneOverK has ellMax 1 and its cube is
\* re-expanded from the default grid, which keeps ellMax
OneOverKCubedEllMax == 1

NoInterpolators ==
    [accRe |-> "none", accIm |-> "none", splineRe |-> "none", splineIm |-> "none"]

\* allocs and frees count the gsl_*_alloc and gsl_*_free calls made for each
\* of the four objects, staleUses the spline evaluations made with an object
\* that is not allocated
BMSLocals ==
    [n_theta |-> 0, u |-> <<>>, uMin |-> 0, uMax |-> 0, iMin |-> 0, iMax |-> 0,
     Nslices |-> 0, slicesStarted |-> 0, n_theta2 |-> 0,
     interp |-> NoInterpolators, evaluations |-> 0,
     allocs |-> [k \in DOMAIN NoInterpolators |-> 0],
     frees |-> [k \in DOMAIN NoInterpolators |-> 0],
     staleUses |-> 0]

InitBMS ==
    /\ self \in BMSObjects
    /\ args = <<>>
    /\ pc = "idle"
    /\ loc = BMSLocals
    /\ ret = NoCall

\* lines 947-960 and 1043-1057: build u on the grid and scan it
BMSCall ==
    /\ pc = "idle"
    /\ \E u0 \in (IF self.class = "Scri" THEN TimesAround(self.t) ELSE {0}),
          c \in (IF self.class = "Scri" THEN {0} ELSE TimesAround(self.t)),
          deltaEllMax \in (self.EllMax - 1)..(self.EllMax + 1) :
         LET n_theta == 2 * self.EllMax + 1
             n == DataGridSize(n_theta, deltaEllMax)
         IN  \E g \in DeltaGrids(n, n_theta, c) :
               LET u == [i \in 1..Len(g) |-> u0 + g[i]]
               IN  /\ args' = [u0 |-> u0, delta |-> [s |-> 0, ellMax |-> deltaEllMax]]
                   /\ loc' = [BMSLocals EXCEPT
                                !.n_theta = n_theta,
                                !.u = u,
                                !.uMax = ScanMax(u, 1, n_theta * n_theta, At(u, 0)),
                                !.uMin = ScanMin(u, 1, n_theta * n_theta, At(u, 0))]
    /\ pc' = "range_check"
    /\ ret' = NoCall
    /\ UNCHANGED self

\* lines 961-967 and 1058-1064
BMSRangeCheck ==
    /\ pc = "range_check"
    /\ IF OutOfRange(self.t, loc.uMin, loc.uMax)
       THEN pc' = "raised" /\ ret' = Throw(ValueError)
       ELSE pc' = "select_window" /\ ret' = ret
    /\ UNCHANGED <<self, args, loc>>

\* lines 968-978 and 1065-1076
BMSSelectWindow ==
    /\ pc = "select_window"
    /\ LET iMin == WindowMin(self.t, loc.uMin)
           iMax == WindowMax(self.t, loc.uMin, loc.uMax)
       IN  loc' = [loc EXCEPT !.iMin = iMin, !.iMax = iMax,
                              !.Nslices = iMax - iMin + 1]
    /\ pc' = "transform_slices"
    /\ UNCHANGED <<self, args, ret>>

\* BMSTransformationOnSlice divides the grid of delta by the n_theta x n_phi
\* grid of 1/K (line 796): DataGrid::operator/ throws when the sizes differ
OnSliceThrows(n_theta, deltaEllMax) ==
    GridSizesDiffer(n_theta, n_theta,
                    DataGridSize(n_theta, deltaEllMax), DataGridSize(n_theta, deltaEllMax))

\* lines 979-984 and 1077-1082
BMSTransformSlices ==
    /\ pc = "transform_slices"
    /\ IF self.class = "Scri" /\ OnSliceThrows(loc.n_theta, args.delta.ellMax)
       THEN /\ loc' = [loc EXCEPT !.slicesStarted = 1]
            /\ pc' = "raised"
            /\ ret' = Throw(VectorSizeMismatch)
       ELSE /\ loc' = [loc EXCEPT
                         !.slicesStarted = loc.Nslices,
                         !.n_theta2 =
                            IF self.class = "Scri" THEN loc.n_theta
                            ELSE DataGridSize(loc.n_theta,
                                   Max(self.EllMax, args.delta.ellMax) + OneOverKCubedEllMax)]
            /\ pc' = "allocate"
            /\ ret' = ret
    /\ UNCHANGED <<self, args>>

\* lines 990-993 and 1089-1092
BMSAllocate ==
    /\ pc = "allocate"
    /\ loc' = [loc EXCEPT
                 !.interp = [k \in DOMAIN NoInterpolators |-> "allocated"],
                 !.allocs = [k \in DOMAIN NoInterpolators |-> loc.allocs[k] + 1]]
    /\ pc' = "interpolate"
    /\ UNCHANGED <<self, args, ret>>

\* lines 995-1013 and 1094-1110: one pair of spline evaluations per grid
\* point (and per data type in Scri)
BMSInterpolate ==
    /\ pc = "interpolate"
    /\ loc' = [loc EXCEPT
                 !.evaluations =
                    loc.n_theta2 * loc.n_theta2 * (IF self.class = "Scri" THEN 7 ELSE 1),
                 !.staleUses =
                    IF \A k \in DOMAIN NoInterpolators : loc.interp[k] = "allocated"
                    THEN 0
                    ELSE loc.n_theta2 * loc.n_theta2
                         * (IF self.class = "Scri" THEN 7 ELSE 1)]
    /\ pc' = "free"
    /\ UNCHANGED <<self, args, ret>>

\* a mutant: splineIm is not freed
BMSFreeWithoutSplineIm ==
    /\ pc = "free"
    /\ loc' = [loc EXCEPT
                 !.interp = [k \in DOMAIN NoInterpolators |->
                               IF k = "splineIm" THEN loc.interp[k] ELSE "freed"],
                 !.frees = [k \in DOMAIN NoInterpolators |->
                              IF k = "splineIm" THEN loc.frees[k]
                              ELSE loc.frees[k] + 1]]
    /\ pc' = "back_transform"
    /\ UNCHANGED <<self, args, ret>>

\* lines 1015-1018 and 1112-1115
BMSFree ==
    /\ pc = "free"
    /\ loc' = [loc EXCEPT
                 !.interp = [k \in DOMAIN NoInterpolators |-> "freed"],
                 !.frees = [k \in DOMAIN NoInterpolators |-> loc.frees[k] + 1]]
    /\ pc' = "back_transform"
    /\ UNCHANGED <<self, args, ret>>

\* lines 1021-1026 and 1119: Modes(BMStransformedGrid)
BMSBackTransform ==
    /\ pc = "back_transform"
    /\ pc' = "returned"
    /\ ret' = Return([EllMax |-> self.EllMax])
    /\ UNCHANGED <<self, args, loc>>

\* the caller has the result or the error; the object is as it was
BMSDone ==
    /\ pc \in {"returned", "raised"}
    /\ pc' = "idle"
    /\ args' = <<>>
    /\ loc' = BMSLocals
    /\ ret' = NoCall
    /\ UNCHANGED self

NextBMS ==
    \/ BMSCall
    \/ BMSDone
    \/ BMSRangeCheck
    \/ BMSSelectWindow
    \/ BMSTransformSlices
    \/ BMSAllocate
    \/ BMSInterpolate
    \/ BMSFree
    \/ BMSBackTransform

SpecBMS == InitBMS /\ [][NextBMS]_vars

\* the call has ended, one way or the other
BMSEnded == pc \in {"raised", "returned"}

\* the original-frame times the grid of u asks for
RequiredMin == ScanMin(loc.u, 1, Len(loc.u), At(loc.u, 0))
RequiredMax == ScanMax(loc.u, 1, Len(loc.u), At(loc.u, 0))

(* C1: Scri::BMSTransformation throws GWFrames_ValueError exactly when the
   range [min(u), max(u)] of the times u = u0 + delta on the grid leaves
   [t.front(), t.back()], and throws it before any per-slice transform or
   interpolation has started. *)
C1_ValueErrorExactlyWhenOutsideSpan ==
    (self.class = "Scri" /\ BMSEnded) =>
        /\ (ret.error = ValueError) <=> OutOfRange(self.t, RequiredMin, RequiredMax)
        /\ (ret.error = ValueError) =>
              /\ loc.slicesStarted = 0
              /\ loc.evaluations = 0
              /\ loc.interp = NoInterpolators

\* the same with a delta that the slices' grid resolves
C1_HoldsWhenDeltaFitsGrid ==
    (self.class = "Scri" /\ BMSEnded /\ args.delta.ellMax <= self.EllMax) =>
        /\ (ret.error = ValueError) <=> OutOfRange(self.t, RequiredMin, RequiredMax)
        /\ (ret.error = ValueError) =>
              /\ loc.slicesStarted = 0
              /\ loc.evaluations = 0
              /\ loc.interp = NoInterpolators

(* C3: in both BMS transformations, once the range check has passed on a
   series of at least 7 time slices, the window [iMin, iMax] holds at least
   7 slices, wherever the required range lies in the series. *)
C3_WindowHasSevenSlices ==
    (pc \in {"transform_slices", "allocate", "interpolate", "free",
             "back_transform", "returned"} /\ Len(self.t) >= 7) =>
        loc.iMax - loc.iMin + 1 >= 7

\* the window does hold 7 slices when it starts at least 7 before the end
C3_SevenSlicesAwayFromTheEnd ==
    (pc \in {"transform_slices", "allocate", "interpolate", "free",
             "back_transform", "returned"} /\ loc.iMin + 6 <= Len(self.t) - 1) =>
        loc.iMax - loc.iMin + 1 >= 7

-----------------------------------------------------------------------------
(* Scri::Scri *)

NoObject == <<>>

\* what the constructor reads of a Waveform: NTimes(), EllMax() and T()
Waveforms ==
    { [NTimes |-> n, EllMax |-> L, T |-> TimesUpTo(n, <<1>>)] :
        n \in 1..MaxWaveformNTimes, L \in 0..MaxWaveformEll }

\* a mutant: the comparison with sigma left out
NTimesDifferWithoutSigma(w) ==
    \/ w.psi0.NTimes # w.psi1.NTimes \/ w.psi0.NTimes # w.psi2.NTimes
    \/ w.psi0.NTimes # w.psi3.NTimes \/ w.psi0.NTimes # w.psi4.NTimes

\* lines 863-864
NTimesDiffer(w) ==
    \/ w.psi0.NTimes # w.psi1.NTimes \/ w.psi0.NTimes # w.psi2.NTimes
    \/ w.psi0.NTimes # w.psi3.NTimes \/ w.psi0.NTimes # w.psi4.NTimes
    \/ w.psi0.NTimes # w.sigma.NTimes

\* lines 874-876
EllMaxDiffer(w) ==
    LET ellMax == w.psi0.EllMax
    IN  \/ ellMax # w.psi1.EllMax \/ ellMax # w.psi2.EllMax
        \/ ellMax # w.psi3.EllMax \/ ellMax # w.psi4.EllMax
        \/ ellMax # w.sigma.EllMax

\* lines 855-909: t and the slices are sized from psi0, then the two checks,
\* then the slices are filled
ScriOutcome(w) ==
    IF NTimesDiffer(w) THEN Throw(VectorSizeMismatch)
    ELSE IF EllMaxDiffer(w) THEN Throw(VectorSizeMismatch)
    ELSE Return([class |-> "Scri", t |-> w.psi0.T, EllMax |-> w.psi0.EllMax])

InitScri ==
    /\ self = NoObject
    /\ args = <<>>
    /\ pc = "idle"
    /\ loc = <<>>
    /\ ret = NoCall

ScriConstruct ==
    /\ pc = "idle"
    /\ \E w \in [{"psi0", "psi1", "psi2", "psi3", "psi4", "sigma"} -> Waveforms] :
         /\ args' = w
         /\ ret' = ScriOutcome(w)
         /\ self' = IF ScriOutcome(w).kind = "return" THEN ScriOutcome(w).value
                    ELSE NoObject
         /\ pc' = IF ScriOutcome(w).kind = "return" THEN "returned" ELSE "raised"
    /\ UNCHANGED loc

\* the caller drops the object or the error and constructs again
ScriDiscard ==
    /\ pc \in {"returned", "raised"}
    /\ self' = NoObject
    /\ args' = <<>>
    /\ pc' = "idle"
    /\ ret' = NoCall
    /\ UNCHANGED loc

NextScri == ScriConstruct \/ ScriDiscard

SpecScri == InitScri /\ [][NextScri]_vars

\* the six waveforms agree on NTimes() and on EllMax()
WaveformsAgree(w) ==
    \A a, b \in DOMAIN w :
        w[a].NTimes = w[b].NTimes /\ w[a].EllMax = w[b].EllMax

(* C2: constructing a Scri from psi0..psi4 and sigma throws
   GWFrames_VectorSizeMismatch whenever some waveform's NTimes() or EllMax()
   differs from another's, and constructs the object when all six agree. *)
C2_SizeMismatchExactlyWhenWaveformsDisagree ==
    pc \in {"returned", "raised"} =>
        /\ ~ WaveformsAgree(args) => (ret.kind = "throw" /\ ret.error = VectorSizeMismatch
                                      /\ self = NoObject)
        /\ WaveformsAgree(args) => (ret.kind = "return" /\ self # NoObject)

\* a construction refused because sigma alone has another NTimes()
C2_Witness ==
    /\ pc = "raised"
    /\ ret.error = VectorSizeMismatch
    /\ args.sigma.NTimes # args.psi0.NTimes
    /\ \A k \in {"psi1", "psi2", "psi3", "psi4"} :
          args[k].NTimes = args.psi0.NTimes /\ args[k].EllMax = args.psi0.EllMax
    /\ args.sigma.EllMax = args.psi0.EllMax

-----------------------------------------------------------------------------
(* std::complex<double> *)

\* A complex number is <<re, im, den>>, the value (re + i*im)/den with
\* den > 0 and no common factor: exact where the code rounds.
Abs(a) == IF a < 0 THEN -a ELSE a

RECURSIVE Gcd(_, _)
Gcd(a, b) == IF b = 0 THEN a ELSE Gcd(b, a % b)

\* (re + i*im)/den with the common factor g > 0 taken out, g having the
\* sign of den
Reduced(re, im, den, g) == <<re \div g, im \div g, den \div g>>

Complex(re, im, den) ==
    Reduced(re, im, den,
            (IF den < 0 THEN -1 ELSE 1) * Gcd(Gcd(Abs(re), Abs(im)), Abs(den)))

Re(z) == Complex(z[1], 0, z[3])
Real(x) == Complex(x, 0, 1)
zero == Complex(0, 0, 1)

CAdd(z, w) == Complex(z[1] * w[3] + w[1] * z[3], z[2] * w[3] + w[2] * z[3], z[3] * w[3])
CNeg(z) == Complex(-z[1], -z[2], z[3])
CSub(z, w) == CAdd(z, CNeg(w))
CMul(z, w) ==
    Complex(z[1] * w[1] - z[2] * w[2], z[1] * w[2] + z[2] * w[1], z[3] * w[3])
Conj(z) == Complex(z[1], -z[2], z[3])
\* z/x and z*(a/b) for real x, a/b
CDivReal(z, x) == Complex(z[1], z[2], z[3] * x)
CScale(z, a, b) == Complex(z[1] * a, z[2] * a, z[3] * b)
\* what a division by zero leaves in a sample: inf or nan, and no error
NotANumber == <<0, 0, 0>>

\* z/w
CDiv(z, w) ==
    IF w[1] = 0 /\ w[2] = 0 THEN NotANumber ELSE
    Complex((z[1] * w[1] + z[2] * w[2]) * w[3], (z[2] * w[1] - z[1] * w[2]) * w[3],
            z[3] * (w[1] * w[1] + w[2] * w[2]))

-----------------------------------------------------------------------------
(* Modes *)

\* the number of (ell,m) coefficients up to ellMax
N_lm(ellMax) == (ellMax + 1) * (ellMax + 1)

MakeModes(s, ellMax, data) == [s |-> s, ellMax |-> ellMax, data |-> data]

\* Modes(const int size), declared in Scri.hpp: spin 0, ellMax 0, size zeros
ModesOfSize(size) == MakeModes(0, 0, [i \in 1..size |-> zero])

\* a mutant: the spin disagreement reported with the size-mismatch kind
ModesPlusSizeMismatchKind(this, M) ==
    IF this.s # M.s THEN Throw(VectorSizeMismatch)
    ELSE Return([this EXCEPT !.data =
                   [i \in 1..Len(this.data) |->
                      IF i <= Len(M.data) THEN CAdd(this.data[i], M.data[i])
                      ELSE this.data[i]]])

\* Modes::operator+, lines 488-510
ModesPlus(this, M) ==
    IF this.s # M.s THEN Throw(BadWaveformInformation)
    ELSE LET A == IF Len(this.data) >= Len(M.data) THEN this ELSE M
             B == IF Len(this.data) < Len(M.data) THEN this ELSE M
         IN  Return([A EXCEPT !.data =
                       [i \in 1..Len(A.data) |->
                          IF i <= Len(B.data) THEN CAdd(A.data[i], B.data[i])
                          ELSE A.data[i]]])

\* a mutant: the coefficients beyond the left operand's length copied
\* from the right operand without the minus sign
ModesMinusTailNotNegated(this, M) ==
    IF this.s # M.s THEN Throw(BadWaveformInformation)
    ELSE IF Len(this.data) >= Len(M.data)
         THEN Return([this EXCEPT !.data =
                        [i \in 1..Len(this.data) |->
                           IF i <= Len(M.data) THEN CSub(this.data[i], M.data[i])
                           ELSE this.data[i]]])
         ELSE Return(MakeModes(M.s, M.ellMax,
                        [i \in 1..Len(M.data) |->
                           IF i <= Len(this.data) THEN CSub(this.data[i], M.data[i])
                           ELSE M.data[i]]))

\* Modes::operator-, lines 512-540
ModesMinus(this, M) ==
    IF this.s # M.s THEN Throw(BadWaveformInformation)
    ELSE IF Len(this.data) >= Len(M.data)
         THEN Return([this EXCEPT !.data =
                        [i \in 1..Len(this.data) |->
                           IF i <= Len(M.data) THEN CSub(this.data[i], M.data[i])
                           ELSE this.data[i]]])
         ELSE Return(MakeModes(M.s, M.ellMax,
                        [i \in 1..Len(M.data) |->
                           IF i <= Len(this.data) THEN CSub(this.data[i], M.data[i])
                           ELSE CNeg(M.data[i])]))

\* the ell of the coefficient with linear index i_m
RECURSIVE EllOfIndex(_, _)
EllOfIndex(i_m, ell) == IF i_m < N_lm(ell) THEN ell ELSE EllOfIndex(i_m, ell + 1)

\* The factors of edth and edthbar are square roots of integers.  A
\* coefficient they have touched is <<re, im, den, rad>>, the value
\* (re + i*im)/den * sqrt(rad) with rad square-free, and zero is
\* <<0, 0, 1, 1>>.
RECURSIVE LargestSquare(_, _)
LargestSquare(n, q) == IF n % (q * q) = 0 THEN q ELSE LargestSquare(n, q - 1)

\* (re + i*im)/den * sqrt(rad) with the square q*q taken out of rad
SurdReduced(c, rad, q) == <<c[1], c[2], c[3], rad \div (q * q)>>
SurdWithSquare(re, im, den, rad, q) ==
    SurdReduced(Complex(re * q, im * q, den), rad, q)

Surd(re, im, den, rad) ==
    IF re = 0 /\ im = 0 THEN <<0, 0, 1, 1>>
    ELSE IF rad = 1 THEN Complex(re, im, den) \o <<1>>
    ELSE SurdWithSquare(re, im, den, rad, LargestSquare(rad, Min(rad, 60)))

AsSurd(z) == IF Len(z) = 4 THEN z ELSE Surd(z[1], z[2], z[3], 1)

\* z * sqrt(n) and z * a for integers n >= 0 and a
SurdTimesSqrt(z, n) ==
    IF n = 0 THEN <<0, 0, 1, 1>>
    ELSE Surd(AsSurd(z)[1], AsSurd(z)[2], AsSurd(z)[3], AsSurd(z)[4] * n)
SurdScale(z, a) == Surd(AsSurd(z)[1] * a, AsSurd(z)[2] * a, AsSurd(z)[3], AsSurd(z)[4])
SurdNeg(z) == SurdScale(z, -1)
SurdConj(z) == Surd(AsSurd(z)[1], -AsSurd(z)[2], AsSurd(z)[3], AsSurd(z)[4])

\* Modes::bar, lines 464-472
ModesBar(A) ==
    [A EXCEPT !.data = Vector([i \in 1..Len(A.data) |-> SurdConj(A.data[i])]),
              !.s = -A.s]

\* the degree of the coefficient data[i] if the loop over ell <= ellMax
\* reaches it, and -1 if it does not
LoopDegree(A, i) ==
    IF EllOfIndex(i - 1, 0) <= A.ellMax THEN EllOfIndex(i - 1, 0) ELSE -1

\* Modes::edth, lines 571-584:
\* factor = (ell<ellMin ? 0.0 : std::sqrt((ell-s)*(ell+s+1.)/2.))
ModesEdth(A) ==
    LET ellMin == Abs(A.s + 1)
        factor(z, ell) ==
            IF ell < ellMin THEN <<0, 0, 1, 1>>
            ELSE SurdTimesSqrt(z, ((ell - A.s) * (ell + A.s + 1)) \div 2)
    IN  [A EXCEPT !.s = A.s + 1,
                  !.data = Vector([i \in 1..Len(A.data) |->
                              IF LoopDegree(A, i) < 0 THEN A.data[i]
                              ELSE factor(A.data[i], LoopDegree(A, i))])]

\* a mutant: edthbar with the sign of edth
ModesEdthbarWithoutSign(A) ==
    LET ellMin == Abs(A.s - 1)
        factor(z, ell) ==
            IF ell < ellMin THEN <<0, 0, 1, 1>>
            ELSE SurdTimesSqrt(z, ((ell + A.s) * (ell - A.s + 1)) \div 2)
    IN  [A EXCEPT !.s = A.s - 1,
                  !.data = Vector([i \in 1..Len(A.data) |->
                              IF LoopDegree(A, i) < 0 THEN A.data[i]
                              ELSE factor(A.data[i], LoopDegree(A, i))])]

\* Modes::edthbar, lines 615-628:
\* factor = (ell<ellMin ? 0.0 : -std::sqrt((ell+s)*(ell-s+1.)/2.))
ModesEdthbar(A) ==
    LET ellMin == Abs(A.s - 1)
        factor(z, ell) ==
            IF ell < ellMin THEN <<0, 0, 1, 1>>
            ELSE SurdNeg(SurdTimesSqrt(z, ((ell + A.s) * (ell - A.s + 1)) \div 2))
    IN  [A EXCEPT !.s = A.s - 1,
                  !.data = Vector([i \in 1..Len(A.data) |->
                              IF LoopDegree(A, i) < 0 THEN A.data[i]
                              ELSE factor(A.data[i], LoopDegree(A, i))])]

\* Modes::edth2edthbar2, lines 630-642: factor = (ell-1)*(ell)*(ell+1)*(ell+2)
ModesEdth2edthbar2(A) ==
    [A EXCEPT !.data = Vector([i \in 1..Len(A.data) |->
                          IF LoopDegree(A, i) < 0 THEN A.data[i]
                          ELSE SurdScale(A.data[i],
                                   (LoopDegree(A, i) - 1) * LoopDegree(A, i)
                                   * (LoopDegree(A, i) + 1) * (LoopDegree(A, i) + 2))])]

-----------------------------------------------------------------------------
(* The Moreschi iteration: SuperMomenta::MoreschiIteration and the stub
   SliceModes::MoreschiIteration *)

\* Coefficients are measured in units of sqrt(24 pi), in which the
\* four-momentum of lines 1135-1142 (and 761-768) is
\*   p[0] = sqrt(6) Re Psi[0],   p[1] = Re(Psi[1]-Psi[3]),
\*   p[2] = Im(Psi[1]+Psi[3]),   p[3] = sqrt(2) Re Psi[2]
\* and M*M = p[0]^2 - p[1]^2 - p[2]^2 - p[3]^2 is an integer for integer
\* coefficients.
MassSquared(Psi) ==
    LET c0 == At(Psi.data, 0)
        c1 == At(Psi.data, 1)
        c2 == At(Psi.data, 2)
        c3 == At(Psi.data, 3)
    IN  6 * c0[1] * c0[1] - (c1[1] - c3[1]) * (c1[1] - c3[1])
          - (c1[2] + c3[2]) * (c1[2] + c3[2]) - 2 * c2[1] * c2[1]

\* the supermomenta whose mass the model can write down: a positive integer
HasMass(Psi) == \E M \in 1..6 : M * M = MassSquared(Psi)

\* M = std::sqrt(p[0]*p[0]-p[1]*p[1]-p[2]*p[2]-p[3]*p[3]), lines 1143 and 752
Mass(Psi) == CHOOSE M \in 1..6 : M * M = MassSquared(Psi)

\* a mutant: the loop over the coefficients of delta started at ell = 1
MoreschiDeltaFromEllOne(delta, deltaderiv) ==
    [delta EXCEPT !.data =
        [i \in 1..Len(delta.data) |->
            LET i_m == i - 1
                ell == EllOfIndex(i_m, 0)
            IN  IF i_m >= 4 /\ ell <= delta.ellMax
                THEN CScale(At(deltaderiv.data, i_m),
                            4, (ell - 1) * ell * (ell + 1) * (ell + 2))
                ELSE IF i_m >= 1 THEN At(deltaderiv.data, i_m)
                ELSE delta.data[i]]]

\* lines 1146-1153: delta[i_m] = factor*deltaderiv[i_m] for ell = 2..ellMax
MoreschiDelta(delta, deltaderiv) ==
    [delta EXCEPT !.data =
        [i \in 1..Len(delta.data) |->
            LET i_m == i - 1
                ell == EllOfIndex(i_m, 0)
            IN  IF i_m >= 4 /\ ell <= delta.ellMax
                THEN CScale(At(deltaderiv.data, i_m),
                            4, (ell - 1) * ell * (ell + 1) * (ell + 2))
                ELSE delta.data[i]]]

\* a mutant: the ell=1 coefficients divided by M, like the ell=0 one
MoreschiOneOverKSameDivisor(OneOverK, Psi_i, M) ==
    [OneOverK EXCEPT !.data =
        [i \in 1..Len(OneOverK.data) |->
            IF i = 1 THEN CDivReal(At(Psi_i.data, 0), M)
            ELSE IF i <= 4 THEN CNeg(CDivReal(At(Psi_i.data, i - 1), M))
            ELSE OneOverK.data[i]]]

\* lines 1155-1166: OneOverK[0] = Psi_i[0]/M, OneOverK[k] = -Psi_i[k]/(3*M)
MoreschiOneOverK(OneOverK, Psi_i, M) ==
    [OneOverK EXCEPT !.data =
        [i \in 1..Len(OneOverK.data) |->
            IF i = 1 THEN CDivReal(At(Psi_i.data, 0), M)
            ELSE IF i <= 4 THEN CNeg(CDivReal(At(Psi_i.data, i - 1), 3 * M))
            ELSE OneOverK.data[i]]]

\* lines 833-839 of the stub: a fresh Modes(4) with ellMax 1 and Psi[k]/M
SliceOneOverK(Psi, M) ==
    [ModesOfSize(4) EXCEPT
        !.ellMax = 1,
        !.data = [i \in 1..4 |-> CDivReal(At(Psi.data, i - 1), M)]]

\* the ell <= 1 coefficients of the supermomenta of the model
LowCoefficients == {Complex(0, 0, 1), Complex(1, 0, 1), Complex(2, 1, 1)}

\* the spin-0 Modes a transform back from a grid can produce: four low
\* coefficients with a mass, and the value h in every higher coefficient
SuperMomentumValues ==
    { MakeModes(0, L, [i \in 1..N_lm(L) |-> IF i <= 4 THEN low[i] ELSE Real(h)]) :
        L \in 1..(MaxEll + 1), h \in {0, 3},
        low \in { q \in [1..4 -> LowCoefficients] :
                    HasMass(MakeModes(0, 1, q)) } }

\* Modes(M/DataGrid(OneOverK, 7, 7).pow(3)), line 1147: spin 0 and the ellMax
\* 3 of a 7 x 7 grid
InverseCubeValues ==
    { MakeModes(0, 3, [i \in 1..N_lm(3) |-> Real(x)]) : x \in {1} }

\* the frame parameters a caller starts the iteration from
StartOneOverK == MakeModes(0, 1, <<Real(1), zero, zero, zero>>)
StartDelta(L) == MakeModes(0, L, [i \in 1..N_lm(L) |-> Real(i)])

\* the supermomentum of slice i of a track, lines 1032-1038: one spin-0
\* Modes per time
TrackPsi(t, EllMax) ==
    [i \in 1..Len(t) |->
        MakeModes(0, EllMax, [j \in 1..N_lm(EllMax) |-> Real(i + j)])]

MoreschiObjects ==
    { [class |-> "SuperMomenta", t |-> TimesUpTo(2, <<1>>), EllMax |-> L,
       Psi |-> TrackPsi(TimesUpTo(2, <<1>>), L)] : L \in 1..MaxEll }
    \cup
    [class : {"SliceModes"}, EllMax : 1..MaxEll, SuperMomentum : SuperMomentumValues]

InitMoreschi ==
    /\ self \in MoreschiObjects
    /\ \E L \in 1..(MaxEll + 1) :
          args = IF self.class = "SuperMomenta"
                 THEN [OneOverK |-> StartOneOverK, delta |-> StartDelta(L)]
                 ELSE [OneOverK_ip1 |-> StartOneOverK, delta_ip1 |-> StartDelta(L)]
    /\ pc = "idle"
    /\ loc = <<>>
    /\ ret = NoCall

\* SuperMomenta::MoreschiIteration, lines 1123-1169.  BMSTransform throws
\* at its range check or returns Psi_i.
SuperMomentaMoreschiIteration ==
    /\ pc = "idle"
    /\ self.class = "SuperMomenta"
    /\ \E c \in TimesAround(self.t), Psi_i \in SuperMomentumValues,
          inverseCube \in InverseCubeValues :
         LET n_theta == 2 * self.EllMax + 1
             n == DataGridSize(n_theta, args.delta.ellMax)
             u == [i \in 1..(n * n) |-> c]
             uMax == ScanMax(u, 1, n_theta * n_theta, At(u, 0))
             uMin == ScanMin(u, 1, n_theta * n_theta, At(u, 0))
             M == Mass(Psi_i)
             deltaderiv == ModesPlus(Psi_i, inverseCube).value
         IN  IF OutOfRange(self.t, uMin, uMax)
             THEN /\ ret' = Throw(ValueError)
                  /\ pc' = "raised"
                  /\ args' = args
                  /\ loc' = [entry |-> args, u |-> u]
             ELSE /\ ret' = Return(<<>>)
                  /\ pc' = "returned"
                  /\ args' = [OneOverK |-> MoreschiOneOverK(args.OneOverK, Psi_i, M),
                              delta |-> MoreschiDelta(args.delta, deltaderiv)]
                  /\ loc' = [entry |-> args, u |-> u, Psi_i |-> Psi_i, M |-> M,
                             deltaderiv |-> deltaderiv]
    /\ UNCHANGED self

\* SliceModes::MoreschiIteration, lines 820-845
SliceModesMoreschiIteration ==
    /\ pc = "idle"
    /\ self.class = "SliceModes"
    /\ LET Psi == self.SuperMomentum
           M == Mass(Psi)
       IN  /\ args' = [args EXCEPT !.OneOverK_ip1 = SliceOneOverK(Psi, M)]
           /\ loc' = [entry |-> args, Psi |-> Psi, M |-> M]
    /\ ret' = Throw(NotYetImplemented)
    /\ pc' = "raised"
    /\ UNCHANGED self

\* back in the caller, which keeps its OneOverK and delta for the next call
MoreschiDone ==
    /\ pc \in {"returned", "raised"}
    /\ pc' = "idle"
    /\ loc' = <<>>
    /\ ret' = NoCall
    /\ UNCHANGED <<self, args>>

NextMoreschi ==
    \/ SuperMomentaMoreschiIteration
    \/ SliceModesMoreschiIteration
    \/ MoreschiDone

SpecMoreschi == InitMoreschi /\ [][NextMoreschi]_vars

SuperMomentaReturned == self.class = "SuperMomenta" /\ pc = "returned"

(* C4: when SuperMomenta::MoreschiIteration returns, the new OneOverK has
   M * OneOverK[0] = Psi_i[0] and, for the three ell=1 coefficients,
   3 * M * OneOverK[k] = -Psi_i[k]: the ell=1 part is divided by 3*M, not
   by M, with its sign reversed. *)
C4_EllOneDividedByThreeM ==
    SuperMomentaReturned =>
        /\ CScale(At(args.OneOverK.data, 0), loc.M, 1) = At(loc.Psi_i.data, 0)
        /\ \A k \in 1..3 :
              CAdd(CScale(At(args.OneOverK.data, k), 3 * loc.M, 1),
                   At(loc.Psi_i.data, k)) = zero

\* C4 as stated: every one of the four coefficients is divided by M alone
C4_EllOneDividedByM ==
    SuperMomentaReturned =>
        /\ CScale(At(args.OneOverK.data, 0), loc.M, 1) = At(loc.Psi_i.data, 0)
        /\ \A k \in 1..3 :
              CAdd(CScale(At(args.OneOverK.data, k), loc.M, 1),
                   At(loc.Psi_i.data, k)) = zero

\* an iteration that returned with a non-zero ell=1 supermomentum
C4_Witness ==
    /\ SuperMomentaReturned
    /\ At(loc.Psi_i.data, 1) # zero
    /\ At(args.OneOverK.data, 1) # zero
    /\ loc.M > 1

(* C5: SliceModes::MoreschiIteration ends with the not-yet-implemented
   error and both reference arguments hold the values they had on entry. *)
C5_StubLeavesArgumentsUntouched ==
    (self.class = "SliceModes" /\ pc = "raised") =>
        /\ ret = Throw(NotYetImplemented)
        /\ args.OneOverK_ip1 = loc.entry.OneOverK_ip1
        /\ args.delta_ip1 = loc.entry.delta_ip1

-----------------------------------------------------------------------------
(* GWFrames::Boost *)

\* A velocity is dir * 10^(-exp10) with dir a vector of -1, 0, 1: the speeds
\* 0.1, 1e-7, 1e-9 and 1e-15 (times |dir| <= sqrt(3)) lie on the four sides
\* of the two thresholds of line 102 as a double sees them.
SpeedExponents == {1, 7, 9, 15}
Directions == [1..3 -> {-1, 0, 1}]
zeroVector == [i \in 1..3 |-> 0]
Velocities ==
    { [dir |-> d, exp10 |-> e] : d \in Directions \ {zeroVector}, e \in SpeedExponents }
    \cup {[dir |-> zeroVector, exp10 |-> 1]}

\* line 80 and 81: in double precision 1.0-magv*magv is 1.0 as soon as
\* magv*magv <= 2^-54 (magv below 7.4e-9), and the rapidity is then
\* acosh(1.0) = 0; the smallest non-zero rapidity is acosh(1+2^-52) = 2.1e-8.
RapidityIsZero(v) == v.dir = zeroVector \/ v.exp10 >= 9

\* line 101 and the first test of line 102: absv < 1.0e-14
AbsvBelowThreshold(v) == v.dir = zeroVector \/ v.exp10 >= 15

\* the second test of line 102: std::abs(1-std::exp(alpha)) < 1.0e-14
ExpAlphaIsOne(v) == RapidityIsZero(v)

\* lines 128-130: the cross product of the two unit vectors is below 1e-14
\* exactly when v and n are parallel or antiparallel
CrossProduct(a, b) ==
    <<a[2] * b[3] - a[3] * b[2], a[3] * b[1] - a[1] * b[3], a[1] * b[2] - a[2] * b[1]>>

\* a mutant: n is inspected before the shortcut for small v
BoostCheckingNFirst(v, n) ==
    IF n = zeroVector THEN Throw(ValueError)
    ELSE IF AbsvBelowThreshold(v) \/ ExpAlphaIsOne(v) THEN Return("identity")
    ELSE IF CrossProduct(v.dir, n) = <<0, 0, 0>> THEN Return("identity")
    ELSE Return("rotation")

\* GWFrames::Boost, lines 87-135
Boost(v, n) ==
    IF AbsvBelowThreshold(v) \/ ExpAlphaIsOne(v) THEN Return("identity")
    ELSE IF n = zeroVector THEN Throw(ValueError)
    ELSE IF CrossProduct(v.dir, n) = <<0, 0, 0>> THEN Return("identity")
    ELSE Return("rotation")

InitBoost ==
    /\ self = NoObject
    /\ args = <<>>
    /\ pc = "idle"
    /\ loc = <<>>
    /\ ret = NoCall

BoostCall ==
    /\ pc = "idle"
    /\ \E v \in Velocities, n \in Directions :
         /\ args' = [v |-> v, n |-> n]
         /\ ret' = Boost(v, n)
         /\ pc' = IF Boost(v, n).kind = "throw" THEN "raised" ELSE "returned"
    /\ UNCHANGED <<self, loc>>

BoostDone ==
    /\ pc \in {"returned", "raised"}
    /\ pc' = "idle"
    /\ args' = <<>>
    /\ ret' = NoCall
    /\ UNCHANGED <<self, loc>>

NextBoost == BoostCall \/ BoostDone

SpecBoost == InitBoost /\ [][NextBoost]_vars

BoostEndedWithZeroN == pc \in {"returned", "raised"} /\ args.n = zeroVector

(* C6: Boost(v, n) with n the zero vector fails with the value error only
   when v is not small: for v = 0, for |v| < 1e-14 and for every v whose
   rapidity rounds to zero the call returns the identity rotor and n is
   never inspected. *)
C6_ZeroNRaisesUnlessVIsSmall ==
    BoostEndedWithZeroN =>
        IF args.v.dir = zeroVector \/ args.v.exp10 >= 9
        THEN ret = Return("identity")
        ELSE ret = Throw(ValueError)

\* C6 as stated: a zero n fails with the value error for every |v| < 1
C6_ZeroNAlwaysRaises == BoostEndedWithZeroN => ret = Throw(ValueError)

\* a zero n met by a velocity of 0.1 per component
C6_Witness ==
    /\ BoostEndedWithZeroN
    /\ args.v.dir # zeroVector
    /\ args.v.exp10 = 1
    /\ ret = Throw(ValueError)

-----------------------------------------------------------------------------
(* DataGrid: the constructor from data and the pointwise operators *)

MaxGridDim == 2
Spins == {-2, 0, 1}

MakeDataGrid(s, n_theta, n_phi, data) ==
    [s |-> s, n_theta |-> n_theta, n_phi |-> n_phi, data |-> data]

\* the sample vectors of the model: all ones, or 1+i, 2+i, 3+i, ...
SampleData(size) ==
    { [i \in 1..size |-> Real(1)], [i \in 1..size |-> Complex(i, 1, 1)] }

\* the grids a DataGrid constructor can leave behind
DataGrids ==
    UNION { { MakeDataGrid(sp, nt, np, D) : D \in SampleData(nt * np) } :
              sp \in Spins, nt \in 1..MaxGridDim, np \in 1..MaxGridDim }

\* DataGrid::DataGrid(Spin, N_theta, N_phi, D), lines 142-153
DataGridFromData(Spin, N_theta, N_phi, D) ==
    IF N_theta * N_phi # Len(D) THEN Throw(VectorSizeMismatch)
    ELSE Return(MakeDataGrid(Spin, N_theta, N_phi, D))

\* DataGrid::operator+, lines 263-289, with B = *this
DataGridPlus(B, A) ==
    IF A.n_theta # B.n_theta THEN Throw(VectorSizeMismatch)
    ELSE IF A.n_phi # B.n_phi THEN Throw(VectorSizeMismatch)
    ELSE Return([B EXCEPT !.data =
                   [i \in 1..Len(B.data) |-> CAdd(B.data[i], A.data[i])]])

\* DataGrid::operator-, lines 291-317, with B = *this
DataGridMinus(B, A) ==
    IF A.n_theta # B.n_theta THEN Throw(VectorSizeMismatch)
    ELSE IF A.n_phi # B.n_phi THEN Throw(VectorSizeMismatch)
    ELSE Return([B EXCEPT !.data =
                   [i \in 1..Len(B.data) |-> CSub(B.data[i], A.data[i])]])

\* a mutant: the product keeps the spin of its left operand
DataGridTimesKeepingSpin(B, A) ==
    IF A.n_theta # B.n_theta THEN Throw(VectorSizeMismatch)
    ELSE IF A.n_phi # B.n_phi THEN Throw(VectorSizeMismatch)
    ELSE Return([B EXCEPT !.data =
                   [i \in 1..Len(B.data) |-> CMul(B.data[i], A.data[i])]])

\* DataGrid::operator*, lines 205-232, with B = *this
DataGridTimes(B, A) ==
    IF A.n_theta # B.n_theta THEN Throw(VectorSizeMismatch)
    ELSE IF A.n_phi # B.n_phi THEN Throw(VectorSizeMismatch)
    ELSE Return([B EXCEPT !.data =
                   [i \in 1..Len(B.data) |-> CMul(B.data[i], A.data[i])],
                          !.s = B.s + A.s])

\* a mutant: the quotient reports unequal sizes with the value error
DataGridOverRaisingValueError(B, A) ==
    IF A.n_theta # B.n_theta THEN Throw(ValueError)
    ELSE IF A.n_phi # B.n_phi THEN Throw(ValueError)
    ELSE Return([B EXCEPT !.data =
                   [i \in 1..Len(B.data) |-> CDiv(B.data[i], A.data[i])],
                          !.s = B.s - A.s])

\* DataGrid::operator/, lines 234-261, with B = *this
DataGridOver(B, A) ==
    IF A.n_theta # B.n_theta THEN Throw(VectorSizeMismatch)
    ELSE IF A.n_phi # B.n_phi THEN Throw(VectorSizeMismatch)
    ELSE Return([B EXCEPT !.data =
                   [i \in 1..Len(B.data) |-> CDiv(B.data[i], A.data[i])],
                          !.s = B.s - A.s])

Outcome(r) == IF r.kind = "throw" THEN "raised" ELSE "returned"

InitGrid ==
    /\ self = NoObject
    /\ args = <<>>
    /\ pc = "idle"
    /\ loc = <<>>
    /\ ret = NoCall

\* the constructor call; a constructor that throws leaves no object
DataGridConstruct ==
    /\ pc = "idle"
    /\ \E Spin \in Spins, N_theta \in 1..MaxGridDim, N_phi \in 1..MaxGridDim,
          size \in 0..(MaxGridDim * MaxGridDim + 1) :
         \E D \in SampleData(size) :
            LET r == DataGridFromData(Spin, N_theta, N_phi, D)
            IN  /\ args' = [Spin |-> Spin, N_theta |-> N_theta, N_phi |-> N_phi, D |-> D]
                /\ ret' = r
                /\ pc' = Outcome(r)
                /\ self' = IF r.kind = "throw" THEN NoObject ELSE r.value
    /\ loc' = [op |-> "DataGrid"]

DataGridAdd ==
    /\ pc = "idle"
    /\ self # NoObject
    /\ \E A \in DataGrids :
         /\ args' = [A |-> A]
         /\ ret' = DataGridPlus(self, A)
         /\ pc' = Outcome(DataGridPlus(self, A))
    /\ loc' = [op |-> "operator+"]
    /\ UNCHANGED self

DataGridSubtract ==
    /\ pc = "idle"
    /\ self # NoObject
    /\ \E A \in DataGrids :
         /\ args' = [A |-> A]
         /\ ret' = DataGridMinus(self, A)
         /\ pc' = Outcome(DataGridMinus(self, A))
    /\ loc' = [op |-> "operator-"]
    /\ UNCHANGED self

DataGridMultiply ==
    /\ pc = "idle"
    /\ self # NoObject
    /\ \E A \in DataGrids :
         /\ args' = [A |-> A]
         /\ ret' = DataGridTimes(self, A)
         /\ pc' = Outcome(DataGridTimes(self, A))
    /\ loc' = [op |-> "operator*"]
    /\ UNCHANGED self

DataGridDivide ==
    /\ pc = "idle"
    /\ self # NoObject
    /\ \E A \in DataGrids :
         /\ args' = [A |-> A]
         /\ ret' = DataGridOver(self, A)
         /\ pc' = Outcome(DataGridOver(self, A))
    /\ loc' = [op |-> "operator/"]
    /\ UNCHANGED self

GridDone ==
    /\ pc \in {"returned", "raised"}
    /\ pc' = "idle"
    /\ args' = <<>>
    /\ loc' = <<>>
    /\ ret' = NoCall
    /\ UNCHANGED self

NextGrid ==
    \/ DataGridConstruct
    \/ DataGridAdd
    \/ DataGridSubtract
    \/ DataGridMultiply
    \/ DataGridDivide
    \/ GridDone

SpecGrid == InitGrid /\ [][NextGrid]_vars

\* an addition or subtraction of two grids of the same dimensions has ended
SameSizeSumEnded ==
    /\ pc \in {"returned", "raised"}
    /\ loc.op \in {"operator+", "operator-"}
    /\ self.n_theta = args.A.n_theta
    /\ self.n_phi = args.A.n_phi

(* C7: for two grids of identical n_theta and n_phi, A+B and A-B raise an
   error whenever the spins differ, and return the pointwise sum or
   difference with the spin unchanged when the spins are equal. *)
C7_SumRaisesOnSpinMismatch ==
    SameSizeSumEnded =>
        IF self.s # args.A.s
        THEN ret.kind = "throw"
        ELSE /\ ret.kind = "return"
             /\ ret.value.s = self.s
             /\ \A i \in 1..Len(self.data) :
                   ret.value.data[i] =
                      IF loc.op = "operator+"
                      THEN CAdd(self.data[i], args.A.data[i])
                      ELSE CSub(self.data[i], args.A.data[i])

\* one of the four binary operators of DataGrid has ended
GridOperatorEnded ==
    /\ pc \in {"returned", "raised"}
    /\ loc.op \in {"operator+", "operator-", "operator*", "operator/"}

GridSizesAgree == self.n_theta = args.A.n_theta /\ self.n_phi = args.A.n_phi

(* C11: for grids of identical n_theta and n_phi the product has the sum of
   the two spins and the quotient their difference, on the operands' grid;
   when n_theta or n_phi differ each of the four binary operators raises
   the size-mismatch error and returns nothing. *)
C11_ProductAddsSpinsQuotientSubtracts ==
    GridOperatorEnded =>
        IF GridSizesAgree
        THEN /\ ret.kind = "return"
             /\ ret.value.n_theta = self.n_theta
             /\ ret.value.n_phi = self.n_phi
             /\ Len(ret.value.data) = self.n_theta * self.n_phi
             /\ loc.op = "operator*" => ret.value.s = self.s + args.A.s
             /\ loc.op = "operator/" => ret.value.s = self.s - args.A.s
        ELSE ret = Throw(VectorSizeMismatch)

\* a spin-1 grid divided by a spin -2 grid of the same size: spin 3
C11_Witness ==
    /\ GridOperatorEnded
    /\ GridSizesAgree
    /\ loc.op = "operator/"
    /\ self.s = 1
    /\ args.A.s = -2
    /\ ret.value.s = 3

-----------------------------------------------------------------------------
(* Modes: the two constructors and the sums *)

\* SphericalFunctions::ellMax, the last degree of the library's tables; the
\* model takes a small one
SphericalFunctions_ellMax == 3
MaxTransformDim == 5

\* lines 432-437: the loop that looks for the ellMax of this data length
RECURSIVE FindEllMax(_, _)
FindEllMax(ellMax, size) ==
    IF ellMax <= SphericalFunctions_ellMax
    THEN IF N_lm(ellMax) = size THEN ellMax ELSE FindEllMax(ellMax + 1, size)
    ELSE ellMax

\* Modes::Modes(spin, Data), lines 429-447
ModesFromData(spin, Data) ==
    LET ellMax == FindEllMax(0, Len(Data))
    IN  IF ellMax >= SphericalFunctions_ellMax THEN Throw(VectorSizeMismatch)
        ELSE Return(MakeModes(spin, ellMax, Data))

\* a mutant: the larger of the two grid dimensions decides
EllMaxFromLargerDimension(D, L) ==
    Max(Max((D.n_theta - 1) \div 2, (D.n_phi - 1) \div 2), L)

\* line 450: std::max(std::min((D.N_theta()-1)/2, (D.N_phi()-1)/2), L)
EllMaxFromDataGrid(D, L) ==
    Max(Min((D.n_theta - 1) \div 2, (D.n_phi - 1) \div 2), L)

\* Modes::Modes(DataGrid D, L), lines 449-455; salm is what
\* spinsfast_map2salm writes into the N_lm(ellMax) coefficients
ModesFromDataGrid(D, L, salm) == MakeModes(D.s, EllMaxFromDataGrid(D, L), salm)

\* the grids handed to the transform: every shape up to MaxTransformDim
TransformGrids ==
    { MakeDataGrid(sp, nt, np, [i \in 1..(nt * np) |-> Real(1)]) :
        sp \in Spins, nt \in 1..MaxTransformDim, np \in 1..MaxTransformDim }

\* the right-hand operands of the sums
ModesValues ==
    UNION { { MakeModes(sp, L, D) : D \in SampleData(N_lm(L)) } :
              sp \in Spins, L \in 0..(MaxEll + 1) }

InitModes ==
    /\ self = NoObject
    /\ args = <<>>
    /\ pc = "idle"
    /\ loc = <<>>
    /\ ret = NoCall

ModesConstruct ==
    /\ pc = "idle"
    /\ \E spin \in Spins, size \in 0..N_lm(SphericalFunctions_ellMax + 1) :
         \E Data \in SampleData(size) :
            LET r == ModesFromData(spin, Data)
            IN  /\ args' = [spin |-> spin, Data |-> Data]
                /\ ret' = r
                /\ pc' = Outcome(r)
                /\ self' = IF r.kind = "throw" THEN NoObject ELSE r.value
    /\ loc' = [op |-> "Modes(spin, Data)"]

ModesConstructFromDataGrid ==
    /\ pc = "idle"
    /\ \E D \in TransformGrids, L \in 0..(MaxEll + 1) :
         \E salm \in SampleData(N_lm(EllMaxFromDataGrid(D, L))) :
            /\ args' = [D |-> D, L |-> L]
            /\ ret' = Return(ModesFromDataGrid(D, L, salm))
            /\ self' = ModesFromDataGrid(D, L, salm)
    /\ pc' = "returned"
    /\ loc' = [op |-> "Modes(D, L)"]

ModesAdd ==
    /\ pc = "idle"
    /\ self # NoObject
    /\ \E M \in ModesValues :
         /\ args' = [M |-> M]
         /\ ret' = ModesPlus(self, M)
         /\ pc' = Outcome(ModesPlus(self, M))
    /\ loc' = [op |-> "operator+"]
    /\ UNCHANGED self

ModesSubtract ==
    /\ pc = "idle"
    /\ self # NoObject
    /\ \E M \in ModesValues :
         /\ args' = [M |-> M]
         /\ ret' = ModesMinus(self, M)
         /\ pc' = Outcome(ModesMinus(self, M))
    /\ loc' = [op |-> "operator-"]
    /\ UNCHANGED self

ModesDone ==
    /\ pc \in {"returned", "raised"}
    /\ pc' = "idle"
    /\ args' = <<>>
    /\ loc' = <<>>
    /\ ret' = NoCall
    /\ UNCHANGED self

NextModes ==
    \/ ModesConstruct
    \/ ModesConstructFromDataGrid
    \/ ModesAdd
    \/ ModesSubtract
    \/ ModesDone

SpecModes == InitModes /\ [][NextModes]_vars

\* a sum or difference of two Modes of different spins has ended
SpinMismatchedSumEnded ==
    /\ pc \in {"returned", "raised"}
    /\ loc.op \in {"operator+", "operator-"}
    /\ self.s # args.M.s

(* C8: Modes addition and subtraction of two operands with different spin
   weights fail with the bad-waveform-information error kind, which is not
   the size-mismatch kind of the grid-dimension checks. *)
C8_SpinMismatchIsBadWaveformInformation ==
    SpinMismatchedSumEnded => ret = Throw(BadWaveformInformation)

\* C8 as stated: the spin disagreement is reported as a size mismatch
C8_SpinMismatchIsSizeMismatch ==
    SpinMismatchedSumEnded => ret = Throw(VectorSizeMismatch)

\* a subtraction of a spin-1 operand from a spin-0 Modes has raised
C8_Witness ==
    /\ SpinMismatchedSumEnded
    /\ loc.op = "operator-"
    /\ self.s = 0
    /\ args.M.s = 1
    /\ pc = "raised"

ModesFromDataGridEnded == pc = "returned" /\ loc.op = "Modes(D, L)"

\* the degrees whose 2*ell+1 samples fit into both dimensions of the grid
DegreesThatFit(D) ==
    { ell \in 0..D.n_theta : 2 * ell + 1 <= D.n_theta /\ 2 * ell + 1 <= D.n_phi }

(* C9: a Modes constructed from a DataGrid D with requested minimum L has
   the largest ellMax among L and the degrees that fit into the smaller of
   the two grid dimensions: max(min(floor((N_theta-1)/2),
   floor((N_phi-1)/2)), L). *)
C9_EllMaxFromSmallerDimension ==
    ModesFromDataGridEnded =>
        /\ ret.value.ellMax \in DegreesThatFit(args.D) \cup {args.L}
        /\ \A ell \in DegreesThatFit(args.D) \cup {args.L} : ell <= ret.value.ellMax
        /\ Len(ret.value.data) = N_lm(ret.value.ellMax)

\* C9 as stated: the maximum of the three numbers
C9_EllMaxFromLargerDimension ==
    ModesFromDataGridEnded =>
        ret.value.ellMax = Max(Max((args.D.n_theta - 1) \div 2,
                                   (args.D.n_phi - 1) \div 2), args.L)

\* a 5 x 3 grid and L = 0: ellMax is 1
C9_Witness ==
    /\ ModesFromDataGridEnded
    /\ args.D.n_theta = 5
    /\ args.D.n_phi = 3
    /\ args.L = 0
    /\ ret.value.ellMax = 1

(* C10: Modes(spin, Data) succeeds exactly when the length of Data is
   N_lm(L) for some L in 0..SphericalFunctions::ellMax, the last one
   included, and then has ellMax = L; for every other length it fails
   with the size-mismatch error. *)
C10_EveryTableLengthAccepted ==
    (pc \in {"returned", "raised"} /\ loc.op = "Modes(spin, Data)") =>
        IF \E L \in 0..SphericalFunctions_ellMax : N_lm(L) = Len(args.Data)
        THEN /\ ret.kind = "return"
             /\ N_lm(ret.value.ellMax) = Len(args.Data)
        ELSE ret = Throw(VectorSizeMismatch)

\* what holds of C10 for Modes: every length but the one of the last degree
C10_HoldsBelowTheLastDegree ==
    (/\ pc \in {"returned", "raised"}
     /\ loc.op = "Modes(spin, Data)"
     /\ Len(args.Data) # N_lm(SphericalFunctions_ellMax)) =>
        IF \E L \in 0..SphericalFunctions_ellMax : N_lm(L) = Len(args.Data)
        THEN /\ ret.kind = "return"
             /\ N_lm(ret.value.ellMax) = Len(args.Data)
        ELSE ret = Throw(VectorSizeMismatch)

\* the DataGrid half of C10: the constructor from data succeeds exactly
\* when the length is n_theta*n_phi, and fails with the size mismatch
C10_DataGridLengthChecked ==
    (pc \in {"returned", "raised"} /\ loc.op = "DataGrid") =>
        IF Len(args.D) = args.N_theta * args.N_phi
        THEN ret = Return(MakeDataGrid(args.Spin, args.N_theta, args.N_phi, args.D))
        ELSE ret = Throw(VectorSizeMismatch)

-----------------------------------------------------------------------------
(* SliceModes::BMSTransformationOnSlice *)

\* The spin-weighted harmonics, the rotors and the transform kernel are
\* collaborators.  A point of the sphere is a number: the grid point i_g of
\* an n_theta x n_phi grid is i_g, and the point a boost rotates it into is
\* i_g + n_theta*n_phi.  Ylm is a table of small weights standing for the
\* harmonics' values: it vanishes for ell < |s|, and Y_00 is constant.
Ylm(s, i_m, point) ==
    IF EllOfIndex(i_m, 0) < Abs(s) THEN 0
    ELSE IF i_m = 0 THEN 1
    ELSE ((i_m * (point + 1) + point) % 3) - 1

\* a coefficient as a sample sees it; sqrt(rad) of a coefficient touched
\* by edth enters the weight as rad
Rational(z) == IF Len(z) = 4 THEN Complex(z[1] * z[4], z[2] * z[4], z[3]) ELSE z

\* Modes::EvaluateAtPoint, lines 666-685: d += data[i_m]*Y(ell,m)
RECURSIVE EvaluateAtPoint(_, _, _)
EvaluateAtPoint(M, point, i_m) ==
    IF i_m >= N_lm(M.ellMax) THEN zero
    ELSE CAdd(CScale(Rational(At(M.data, i_m)), Ylm(M.s, i_m, point), 1),
              EvaluateAtPoint(M, point, i_m + 1))

\* the direction Rp*zHat*Rp.conjugate() of grid point i_g, lines 170-171, as
\* far as the boost looks at it: a pole, the x axis, or none of the axes
GridDirection(n_theta, n_phi, i_g) ==
    IF i_g \div n_phi = 0 THEN <<0, 0, 1>>
    ELSE IF i_g \div n_phi = n_theta - 1 THEN <<0, 0, -1>>
    ELSE IF 2 * (i_g \div n_phi) = n_theta - 1 /\ i_g % n_phi = 0 THEN <<1, 0, 0>>
    ELSE <<1, 1, 1>>

\* the point R_b*Rp takes zHat into, with R_b = Boost(-v, ...), lines 170-172
BoostedPoint(v, n_theta, n_phi, i_g) ==
    LET minusv == [v EXCEPT !.dir = [i \in 1..3 |-> -v.dir[i]]]
        R_b == Boost(minusv, GridDirection(n_theta, n_phi, i_g))
    IN  IF R_b = Return("identity") THEN i_g ELSE i_g + n_theta * n_phi

\* a mutant: the table of a boost for every v, v = 0 included
InverseConformalFactorOfBoostOnly(v, point) == Real(1 + (point % 2))

\* gamma*(1 - v.n), lines 395-398 and 413: exactly 1 for v = 0, and a
\* table of 1 and 2 standing for the values of a boost
InverseConformalFactor(v, point) ==
    IF v.dir = zeroVector THEN Real(1) ELSE Real(1 + (point % 2))

\* GWFrames::InverseConformalFactorGrid, lines 386-402
InverseConformalFactorGrid(v, n_theta, n_phi) ==
    MakeDataGrid(0, n_theta, n_phi,
        Vector([i \in 1..(n_theta * n_phi) |-> InverseConformalFactor(v, i - 1)]))

\* GWFrames::InverseConformalFactorBoostedGrid, lines 417-420 and 178-203
InverseConformalFactorBoostedGrid(v, n_theta, n_phi) ==
    MakeDataGrid(0, n_theta, n_phi,
        Vector([i \in 1..(n_theta * n_phi) |->
            InverseConformalFactor(v, BoostedPoint(v, n_theta, n_phi, i - 1))]))

\* DataGrid::DataGrid(Modes M, N_theta, N_phi), lines 155-161
DataGridFromModes(M, N_theta, N_phi) ==
    LET n_theta == Max(N_theta, 2 * M.ellMax + 1)
        n_phi == Max(N_phi, 2 * M.ellMax + 1)
    IN  MakeDataGrid(M.s, n_theta, n_phi,
            Vector([i \in 1..(n_theta * n_phi) |-> EvaluateAtPoint(M, i - 1, 0)]))

\* DataGrid::DataGrid(Modes M, v, N_theta, N_phi), lines 163-175
DataGridBoosted(M, v, N_theta, N_phi) ==
    LET n_theta == Max(N_theta, 2 * M.ellMax + 1)
        n_phi == Max(N_phi, 2 * M.ellMax + 1)
    IN  MakeDataGrid(M.s, n_theta, n_phi,
            Vector([i \in 1..(n_theta * n_phi) |->
                EvaluateAtPoint(M, BoostedPoint(v, n_theta, n_phi, i - 1), 0)]))

\* DataGrid::pow, lines 319-326, for p >= 1
RECURSIVE CPow(_, _)
CPow(z, p) == IF p = 1 THEN z ELSE CMul(z, CPow(z, p - 1))
DataGridPow(c, p) ==
    [c EXCEPT !.data = Vector([i \in 1..(c.n_theta * c.n_phi) |-> CPow(c.data[i], p)])]

\* operator*(double a, DataGrid b), lines 328-335
ScalarTimes(a, b) ==
    [b EXCEPT !.data =
        Vector([i \in 1..(b.n_theta * b.n_phi) |-> CScale(b.data[i], a, 1)])]

\* operator-(double a, DataGrid b), lines 355-362
ScalarMinus(a, b) ==
    [b EXCEPT !.data =
        Vector([i \in 1..(b.n_theta * b.n_phi) |-> CSub(Real(a), b.data[i])])]

\* SliceOfScri<D>::SliceOfScri, lines 712-718: the spins of psi0, psi1, psi2,
\* psi3, psi4, sigma, sigmadot, kept as slice[0] .. slice[6]
SliceSpins == <<2, 1, 0, -1, -2, 2, 2>>

\* the ellMax of the slices of the model: the least one that gives the
\* members of spin 2 a coefficient
SliceEllMax == Abs(SliceSpins[1])
MaxSliceSeed == 2

\* the slices of the model: small Gaussian integers in every coefficient with
\* ell >= |s|
SliceModesValues ==
    { [j \in 1..7 |->
         MakeModes(SliceSpins[j], SliceEllMax,
            [i \in 1..N_lm(SliceEllMax) |->
                IF EllOfIndex(i - 1, 0) < Abs(SliceSpins[j]) THEN zero
                ELSE Complex(((seed + j + i) % 3) - 1, (seed * i) % 2, 1)])] :
      seed \in 1..MaxSliceSeed }

\* SliceModes::EllMax, lines 735-747
RECURSIVE SliceEllMaxOf(_, _)
SliceEllMaxOf(slice, j) ==
    IF j = 6 THEN At(slice, 6).ellMax
    ELSE Max(At(slice, j).ellMax, SliceEllMaxOf(slice, j + 1))

\* the default of the argument L of Modes(DataGrid D, const int L),
\* declared in Scri.hpp
DefaultL == -1

\* the coefficients of u - delta with ellMax L: what the transform kernel
\* returns for the grid of u - delta when no boost has deformed it
ScalarMinusModes(u, delta, L) ==
    MakeModes(delta.s, L,
        Vector([i \in 1..N_lm(L) |->
            CSub(IF i = 1 THEN Real(u) ELSE zero,
                 IF i <= N_lm(delta.ellMax) THEN delta.data[i] ELSE zero)]))

\* spinsfast_map2salm, line 452: the coefficients whose grid is D if the
\* candidate has that grid, and the drawn ones if not
Salm(D, candidate, drawn) ==
    IF DataGridFromModes(candidate, D.n_theta, D.n_phi).data = D.data
    THEN candidate.data ELSE drawn

\* the grid a product or a difference of grids of one size returns
Held(c) == [c EXCEPT !.data = Vector(c.data)]
Times(B, A) == Held(DataGridTimes(B, A).value)
Minus(B, A) == Held(DataGridMinus(B, A).value)

\* a mutant: psi0 peeled with the coefficients 1, 4, 4, 4, 1
PeelPsi0WrongCoefficient(k3, e, g) ==
    Times(k3, Minus(g[1], Times(e, Minus(ScalarTimes(4, g[2]),
        Times(e, Minus(ScalarTimes(4, g[3]),
            Times(e, Minus(ScalarTimes(4, g[4]), Times(e, g[5])))))))))

\* lines 808-812, with k3 = oneoverKcubed_g, e = ethupok_g and
\* g = <<psi0_g, psi1_g, psi2_g, psi3_g, psi4_g>>
PeelPsi4(k3, e, g) == Times(k3, g[5])
PeelPsi3(k3, e, g) == Times(k3, Minus(g[4], Times(e, g[5])))
PeelPsi2(k3, e, g) ==
    Times(k3, Minus(g[3], Times(e, Minus(ScalarTimes(2, g[4]), Times(e, g[5])))))
PeelPsi1(k3, e, g) ==
    Times(k3, Minus(g[2], Times(e, Minus(ScalarTimes(3, g[3]),
        Times(e, Minus(ScalarTimes(3, g[4]), Times(e, g[5])))))))
PeelPsi0(k3, e, g) ==
    Times(k3, Minus(g[1], Times(e, Minus(ScalarTimes(4, g[2]),
        Times(e, Minus(ScalarTimes(6, g[3]),
            Times(e, Minus(ScalarTimes(4, g[4]), Times(e, g[5])))))))))

\* the spins <<left, right>> of the operands of every DataGrid subtraction
\* of lines 809-813: each psi_j_g (or its multiple) has ethupok_g times a
\* grid of the spin of psi_(j+1)_g subtracted, and sigma_g has ethethdelta_g
SubtractedSpins(e, g, sigma_g, ethethdelta_g) ==
    { <<Minus(g[j], Times(e, g[j + 1])).s, Times(e, g[j + 1]).s>> : j \in 1..4 }
    \cup { <<sigma_g.s, ethethdelta_g.s>> }

\* lines 806-816: the seven grids of the returned SliceGrid, psi0 first,
\* together with the local grids they were made of
OnSliceGrids(oneoverK_g, ethethdelta_g, uprime, ethupok_g, g) ==
    [outcome |-> Return(<<PeelPsi0(DataGridPow(oneoverK_g, 3), ethupok_g, g),
                          PeelPsi1(DataGridPow(oneoverK_g, 3), ethupok_g, g),
                          PeelPsi2(DataGridPow(oneoverK_g, 3), ethupok_g, g),
                          PeelPsi3(DataGridPow(oneoverK_g, 3), ethupok_g, g),
                          PeelPsi4(DataGridPow(oneoverK_g, 3), ethupok_g, g),
                          Times(oneoverK_g, Minus(g[6], ethethdelta_g)),
                          Times(g[7], DataGridPow(oneoverK_g, 2))>>),
     locals |-> [oneoverK_g |-> oneoverK_g,
                 ethethdelta_g |-> ethethdelta_g,
                 uprime |-> uprime,
                 ethupok_g |-> ethupok_g,
                 g |-> g,
                 subtracted |-> SubtractedSpins(ethupok_g, g, g[6], ethethdelta_g)]]

\* line 796, inside out: Modes((u - DataGrid(delta, ...)) / ...), where D is
\* the quotient
Uprime(D, u, delta, drawn) ==
    ModesFromDataGrid(D, DefaultL,
        Salm(D, ScalarMinusModes(u, delta, EllMaxFromDataGrid(D, DefaultL)),
             drawn[EllMaxFromDataGrid(D, DefaultL)]))

\* a mutant: u' on the boosted grid without its edth
EthupokWithoutEdth(uprime, v, n_theta, oneoverK_g) ==
    Times(DataGridBoosted(uprime, v, n_theta, n_theta), oneoverK_g)

\* lines 796-797: DataGrid(uprime.edth(), v, n_theta, n_phi)*oneoverK_g
Ethupok(uprime, v, n_theta, oneoverK_g) ==
    Times(DataGridBoosted(ModesEdth(uprime), v, n_theta, n_theta), oneoverK_g)

\* lines 793-804 once the quotient of line 796 is there
OnSliceAfterQuotient(slice, u, v, delta, drawn, n_theta, quotient, oneoverK_g, uprime) ==
    IF quotient.kind = "throw"
    THEN [outcome |-> quotient, locals |-> <<>>]
    ELSE OnSliceGrids(oneoverK_g,
             DataGridBoosted(ModesEdth(ModesEdth(delta)), v, n_theta, n_theta),
             uprime,
             Ethupok(uprime, v, n_theta, oneoverK_g),
             Vector([j \in 1..7 |-> DataGridBoosted(slice[j], v, n_theta, n_theta)]))

\* lines 789-797 up to the quotient
OnSliceWithGridSize(slice, u, v, delta, drawn, n_theta, quotient) ==
    OnSliceAfterQuotient(slice, u, v, delta, drawn, n_theta, quotient,
        InverseConformalFactorBoostedGrid(v, n_theta, n_theta),
        Uprime(quotient.value, u, delta, drawn))

\* SliceModes::BMSTransformationOnSlice, lines 780-817: the returned
\* SliceGrid or the error, and the local grids
OnSliceOfSize(slice, u, v, delta, drawn, n_theta) ==
    OnSliceWithGridSize(slice, u, v, delta, drawn, n_theta,
        DataGridOver(ScalarMinus(u, DataGridFromModes(delta, n_theta, n_theta)),
                     InverseConformalFactorGrid(v, n_theta, n_theta)))

OnSlice(slice, u, v, delta, drawn) ==
    OnSliceOfSize(slice, u, v, delta, drawn, 2 * SliceEllMaxOf(slice, 0) + 1)

\* the supertranslations of the model: spin 0 (or 1), every ellMax up to
\* one above the slices', all zeros or ones in the even coefficients
SliceDeltas ==
    { MakeModes(sp, L, [i \in 1..N_lm(L) |-> Real(x * (i % 2))]) :
        sp \in {0, 1}, L \in 0..(SliceEllMax + 1), x \in {0, 1} }

SliceVelocities ==
    { [dir |-> d, exp10 |-> 1] : d \in {zeroVector, <<0, 0, 1>>, <<1, 0, 0>>} }

\* what the kernel writes for a grid that a boost has deformed, per ellMax
DrawnSalm ==
    { [L \in 0..(SliceEllMax + 1) |-> [i \in 1..N_lm(L) |-> Complex(x, 1 - x, 1)]] :
        x \in {0, 1} }

InitSlice ==
    /\ self \in SliceModesValues
    /\ args = <<>>
    /\ pc = "idle"
    /\ loc = <<>>
    /\ ret = NoCall

\* the call has ended with r
SliceCallEnds(r) ==
    /\ ret' = r.outcome
    /\ pc' = Outcome(r.outcome)
    /\ loc' = r.locals

BMSTransformationOnSlice ==
    /\ pc = "idle"
    /\ \E u \in {0, 2}, v \in SliceVelocities, delta \in SliceDeltas,
          drawn \in DrawnSalm :
         /\ args' = [u |-> u, v |-> v, delta |-> delta]
         /\ SliceCallEnds(OnSlice(self, u, v, delta, drawn))
    /\ UNCHANGED self

SliceDone ==
    /\ pc \in {"returned", "raised"}
    /\ pc' = "idle"
    /\ args' = <<>>
    /\ loc' = <<>>
    /\ ret' = NoCall
    /\ UNCHANGED self

NextSlice == BMSTransformationOnSlice \/ SliceDone

SpecSlice == InitSlice /\ [][NextSlice]_vars

\* the call of BMSTransformationOnSlice has ended
SliceEnded == pc \in {"returned", "raised"}

\* delta = 0: the supertranslation of spin 0 whose coefficients all vanish
IsZeroDelta(delta) ==
    /\ delta.s = 0
    /\ \A i \in 1..Len(delta.data) : delta.data[i] = zero

\* the grids of the stored members with no boost: DataGrid(slice[j], n, n)
\* with n = 2*EllMax()+1
UnboostedGrids(slice) ==
    [j \in 1..7 |->
        DataGridFromModes(slice[j], 2 * SliceEllMaxOf(slice, 0) + 1,
                          2 * SliceEllMaxOf(slice, 0) + 1)]

(* C12: BMSTransformationOnSlice(u, v, delta) with v = (0,0,0) and delta = 0
   is the identity map: for every u and every slice it returns, as each of
   its seven grids, the unboosted grid of the stored member. *)
C12_ZeroBoostZeroDeltaIsIdentity ==
    (SliceEnded /\ args.v.dir = zeroVector /\ IsZeroDelta(args.delta)) =>
        ret = Return(UnboostedGrids(self))

\* C12 for the zero supertranslations whose ellMax is at most the slice's
C12_IdentityWhenZeroDeltaFitsGrid ==
    (/\ SliceEnded
     /\ args.v.dir = zeroVector
     /\ IsZeroDelta(args.delta)
     /\ args.delta.ellMax <= SliceEllMaxOf(self, 0)) =>
        ret = Return(UnboostedGrids(self))

\* a call with v = 0, a zero delta of ellMax 1 and u # 0 has returned
\* grids that are not all zero
C12_Witness ==
    /\ pc = "returned"
    /\ args.v.dir = zeroVector
    /\ IsZeroDelta(args.delta)
    /\ args.delta.ellMax = 1
    /\ args.u # 0
    /\ \E j \in 1..7 : \E p \in 1..Len(ret.value[j].data) :
          ret.value[j].data[p] # zero

\* the binomial coefficient C(n, k)
RECURSIVE Binomial(_, _)
Binomial(n, k) ==
    IF k = 0 \/ k = n THEN 1 ELSE Binomial(n - 1, k - 1) + Binomial(n - 1, k)

\* z^j for j >= 0
CPower(z, j) == IF j = 0 THEN Real(1) ELSE CPow(z, j)

\* sum over j' from j to 4-i of (-1)^j' * C(4-i, j') * e^j' * psi_(i+j') at
\* the grid point p
RECURSIVE PeelingSum(_, _, _, _, _)
PeelingSum(e, g, i, j, p) ==
    IF j > 4 - i THEN zero
    ELSE CAdd(CScale(CMul(CPower(e.data[p], j), g[i + j + 1].data[p]),
                     (IF j % 2 = 0 THEN 1 ELSE -1) * Binomial(4 - i, j), 1),
              PeelingSum(e, g, i, j + 1, p))

(* C13: the five curvature scalars returned by BMSTransformationOnSlice
   follow the binomial peeling law at every grid point: with
   e = edth(u')/K and k3 = (1/K)^3,
   psi_i' = k3 * sum_(j=0..4-i) (-1)^j C(4-i, j) e^j psi_(i+j) for
   i = 0..4, while sigma' = (1/K)*(sigma - edth^2 delta) and
   sigmadot' = sigmadot*(1/K)^2. *)
C13_BinomialPeelingLaw ==
    pc = "returned" =>
        \A p \in 1..Len(loc.oneoverK_g.data) :
            /\ \A i \in 0..4 :
                  ret.value[i + 1].data[p] =
                      CMul(CPow(loc.oneoverK_g.data[p], 3),
                           PeelingSum(loc.ethupok_g, loc.g, i, 0, p))
            /\ ret.value[6].data[p] =
                  CMul(loc.oneoverK_g.data[p],
                       CSub(loc.g[6].data[p], loc.ethethdelta_g.data[p]))
            /\ ret.value[7].data[p] =
                  CMul(loc.g[7].data[p], CPow(loc.oneoverK_g.data[p], 2))

\* a call has returned where, at one grid point, 1/K is not 1 and e, psi4
\* and the edth^2 delta correction are not zero
C13_Witness ==
    /\ pc = "returned"
    /\ \E p \in 1..Len(loc.oneoverK_g.data) :
          /\ loc.oneoverK_g.data[p] # Real(1)
          /\ loc.ethupok_g.data[p] # zero
          /\ loc.g[5].data[p] # zero
          /\ loc.ethethdelta_g.data[p] # zero

(* C14: for a delta of spin 0 with delta.EllMax() <= EllMax(),
   BMSTransformationOnSlice returns exactly seven grids, each
   (2*EllMax()+1) x (2*EllMax()+1), of spins +2, +1, 0, -1, -2 for
   psi0..psi4 and +2 for sigma and sigmadot, and no subtraction of the
   cascade combines grids of unequal spin. *)
C14_SevenGridsOfTheMembersSpins ==
    (/\ SliceEnded
     /\ args.delta.s = 0
     /\ args.delta.ellMax <= SliceEllMaxOf(self, 0)) =>
        /\ pc = "returned"
        /\ Len(ret.value) = 7
        /\ \A j \in 1..7 :
              /\ ret.value[j].n_theta = 2 * SliceEllMaxOf(self, 0) + 1
              /\ ret.value[j].n_phi = 2 * SliceEllMaxOf(self, 0) + 1
              /\ ret.value[j].s = SliceSpins[j]
        /\ \A pair \in loc.subtracted : pair[1] = pair[2]

\* a call with a boost and a delta of spin 0 that is not zero has returned
C14_Witness ==
    /\ pc = "returned"
    /\ args.delta.s = 0
    /\ args.delta.ellMax = SliceEllMaxOf(self, 0)
    /\ ~IsZeroDelta(args.delta)
    /\ args.v.dir # zeroVector

-----------------------------------------------------------------------------
(* Modes::bar, Modes::edth, Modes::edthbar and Modes::edth2edthbar2, called
   one on the result of the other: f.edth().edthbar() and the like *)

\* the longest chain of calls of the model
MaxChain == 4

\* the coefficients given to Modes(spin, Data): 1+i, 2+i, 3+i, ..., in
\* every degree or only in the degrees ell >= |spin|
ChainData(spin, L) ==
    { [i \in 1..N_lm(L) |-> Complex(i, 1, 1)],
      [i \in 1..N_lm(L) |->
          IF EllOfIndex(i - 1, 0) < Abs(spin) THEN zero ELSE Complex(i, 1, 1)] }

\* the objects the chains start from, made by Modes(spin, Data)
ChainModes ==
    UNION { { ModesFromData(SliceSpins[j], Data).value :
                Data \in ChainData(SliceSpins[j], L) } :
            j \in 1..5, L \in 0..(MaxEll + 1) }

\* self is f, loc.chain the methods called so far, first call first, and
\* loc.B the Modes the last of them returned (f itself before any call)
InitChain ==
    /\ self \in ChainModes
    /\ args = <<>>
    /\ pc = "idle"
    /\ loc = [chain |-> <<>>, B |-> self]
    /\ ret = NoCall

\* the method called on loc.B has returned r
ChainCall(method, r) ==
    /\ Len(loc.chain) < MaxChain
    /\ loc' = [chain |-> Append(loc.chain, method), B |-> r]
    /\ ret' = Return(r)
    /\ UNCHANGED <<self, args, pc>>

BarCall == ChainCall("bar", ModesBar(loc.B))
EdthCall == ChainCall("edth", ModesEdth(loc.B))
EdthbarCall == ChainCall("edthbar", ModesEdthbar(loc.B))
Edth2edthbar2Call == ChainCall("edth2edthbar2", ModesEdth2edthbar2(loc.B))

\* the temporaries of the chain are destroyed; f is as it was
ChainDiscard ==
    /\ loc.chain # <<>>
    /\ loc' = [chain |-> <<>>, B |-> self]
    /\ ret' = NoCall
    /\ UNCHANGED <<self, args, pc>>

NextChain ==
    \/ BarCall
    \/ EdthCall
    \/ EdthbarCall
    \/ Edth2edthbar2Call
    \/ ChainDiscard

SpecChain == InitChain /\ [][NextChain]_vars

\* coefficient i of B is a/b times coefficient i of A
IsMultiple(B, A, i, a, b) ==
    AsSurd(B.data[i]) = AsSurd(CScale(A.data[i], a, b))

\* the degree of coefficient i, counted from 1
Degree(i) == EllOfIndex(i - 1, 0)

(* C15: for a Modes of spin s and every degree ell <= ellMax, edth then
   edthbar returns a Modes of spin s whose (ell,m) coefficient is the
   original one times -(ell-s)(ell+s+1)/2 when ell >= |s+1| and zero below,
   and edthbar then edth one of spin s whose coefficient is the original
   one times -(ell+s)(ell-s+1)/2 when ell >= |s-1| and zero below. *)
C15_EdthEdthbarEigenvalues ==
    /\ loc.chain = <<"edth", "edthbar">> =>
          /\ loc.B.s = self.s
          /\ loc.B.ellMax = self.ellMax
          /\ \A i \in 1..N_lm(self.ellMax) :
                IF Degree(i) >= Abs(self.s + 1)
                THEN IsMultiple(loc.B, self, i,
                        -((Degree(i) - self.s) * (Degree(i) + self.s + 1)), 2)
                ELSE IsMultiple(loc.B, self, i, 0, 1)
    /\ loc.chain = <<"edthbar", "edth">> =>
          /\ loc.B.s = self.s
          /\ loc.B.ellMax = self.ellMax
          /\ \A i \in 1..N_lm(self.ellMax) :
                IF Degree(i) >= Abs(self.s - 1)
                THEN IsMultiple(loc.B, self, i,
                        -((Degree(i) + self.s) * (Degree(i) - self.s + 1)), 2)
                ELSE IsMultiple(loc.B, self, i, 0, 1)

\* f.edthbar().edth() has returned for an f of spin 1 and ellMax 2 with a
\* coefficient in every degree: zero in ell = 0 and not zero in ell = 2
C15_Witness ==
    /\ loc.chain = <<"edthbar", "edth">>
    /\ self.s = 1
    /\ self.ellMax = 2
    /\ self.data[1] # zero
    /\ AsSurd(loc.B.data[1]) = AsSurd(zero)
    /\ AsSurd(loc.B.data[9]) # AsSurd(zero)

\* the coefficients of M of degree ell < |s| are zero
LowDegreesAreZero(M) ==
    \A i \in 1..Len(M.data) :
        Degree(i) < Abs(M.s) => AsSurd(M.data[i]) = AsSurd(zero)

(* C16: every Modes object reachable through the operations of this file,
   the construction from explicit data among them, has all coefficients of
   degree ell < |s| equal to zero, s being its spin weight. *)
C16_LowDegreesAlwaysZero ==
    /\ self # NoObject => LowDegreesAreZero(self)
    /\ (pc = "returned" /\ loc.op \in {"operator+", "operator-"}) =>
          LowDegreesAreZero(ret.value)

\* what holds of C16: bar, edth, edthbar and edth2edthbar2, in any chain,
\* return a Modes with zeros below |s| when f has zeros below its |s|
C16_MethodsKeepLowDegreesZero ==
    LowDegreesAreZero(self) => LowDegreesAreZero(loc.B)

\* f.edthbar().edthbar().edth().edth() has returned for an f of spin 0
CompositionReturned ==
    /\ loc.chain = <<"edthbar", "edthbar", "edth", "edth">>
    /\ self.s = 0

(* C20: Modes::edth2edthbar2 is edth^2 edthbar^2 built from edth and
   edthbar: for every f of spin 0, f.edth2edthbar2() has the spin and the
   coefficients of f.edthbar().edthbar().edth().edth(). *)
C20_Edth2edthbar2IsTheComposition ==
    CompositionReturned =>
        /\ loc.B.s = ModesEdth2edthbar2(self).s
        /\ \A i \in 1..Len(self.data) :
              AsSurd(loc.B.data[i]) = AsSurd(ModesEdth2edthbar2(self).data[i])

\* what holds of C20: f.edth2edthbar2() is four times the composition
C20_FourTimesTheComposition ==
    CompositionReturned =>
        /\ loc.B.s = ModesEdth2edthbar2(self).s
        /\ \A i \in 1..Len(self.data) :
              SurdScale(loc.B.data[i], 4) = AsSurd(ModesEdth2edthbar2(self).data[i])

\* coefficient i of M, a coefficient beyond its length taken as zero
Coefficient(M, i) == IF i <= Len(M.data) THEN M.data[i] ELSE zero

\* a sum or difference of two Modes of one spin has ended
EqualSpinSumEnded ==
    /\ pc \in {"returned", "raised"}
    /\ loc.op \in {"operator+", "operator-"}
    /\ self.s = args.M.s

(* C17: for two Modes A and B of equal spin and any ellMax values, A+B and
   A-B have ellMax = max(A.ellMax, B.ellMax), the spin of the operands, and
   coefficient i equal to a_i + b_i (resp. a_i - b_i), a coefficient beyond
   an operand's length taken as zero; A-B is the negation of B-A
   coefficient by coefficient. *)
C17_SumsPadWithZeros ==
    EqualSpinSumEnded =>
        /\ pc = "returned"
        /\ ret.value.ellMax = Max(self.ellMax, args.M.ellMax)
        /\ ret.value.s = self.s
        /\ Len(ret.value.data) = Max(Len(self.data), Len(args.M.data))
        /\ \A i \in 1..Len(ret.value.data) :
              ret.value.data[i] =
                  IF loc.op = "operator+"
                  THEN CAdd(Coefficient(self, i), Coefficient(args.M, i))
                  ELSE CSub(Coefficient(self, i), Coefficient(args.M, i))
        /\ loc.op = "operator-" =>
              \A i \in 1..Len(ret.value.data) :
                  ret.value.data[i] = CNeg(ModesMinus(args.M, self).value.data[i])

\* A - B has returned for an A of ellMax 0 and a B of ellMax 2 of the same
\* spin
C17_Witness ==
    /\ pc = "returned"
    /\ loc.op = "operator-"
    /\ self.ellMax = 0
    /\ args.M.ellMax = 2
    /\ ret.value.data[9] # zero

(* C18: in Scri::BMSTransformation and SuperMomenta::BMSTransform, on every
   exit path (normal return, the value error of the range check, a size
   mismatch raised by a per-slice transform) each of the four interpolation
   objects that has been allocated is freed exactly once before the call
   ends, none is used after being freed, and none remains allocated after
   the call. *)
C18_InterpolatorsFreedOnEveryExit ==
    /\ \A k \in DOMAIN NoInterpolators :
          /\ loc.allocs[k] <= 1
          /\ loc.frees[k] <= loc.allocs[k]
          /\ BMSEnded => (loc.frees[k] = loc.allocs[k] /\ loc.interp[k] # "allocated")
    /\ loc.staleUses = 0

\* a call has returned after interpolating with the four objects, each
\* allocated and freed
C18_Witness ==
    /\ pc = "returned"
    /\ loc.evaluations > 0
    /\ \A k \in DOMAIN NoInterpolators :
          loc.allocs[k] = 1 /\ loc.frees[k] = 1 /\ loc.interp[k] = "freed"

(* C19: across any sequence of SuperMomenta::MoreschiIteration calls on one
   track with one pair (OneOverK, delta), only OneOverK[0..3] and the delta
   coefficients of degree ell >= 2 ever change: the track's time array and
   Psi sequence, the ell = 0 and ell = 1 coefficients of delta, and the
   spin, ellMax and length of both arguments keep their initial values;
   a call that fails with the out-of-range value error leaves OneOverK and
   delta as they were before that call. *)
C19_OnlyFrameParametersChange ==
    self.class = "SuperMomenta" =>
        /\ self.t = TimesUpTo(2, <<1>>)
        /\ self.Psi = TrackPsi(self.t, self.EllMax)
        /\ args.OneOverK.s = StartOneOverK.s
        /\ args.OneOverK.ellMax = StartOneOverK.ellMax
        /\ Len(args.OneOverK.data) = Len(StartOneOverK.data)
        /\ args.delta.s = StartDelta(args.delta.ellMax).s
        /\ Len(args.delta.data) = Len(StartDelta(args.delta.ellMax).data)
        /\ \A i \in 1..Len(args.delta.data) :
              Degree(i) < 2 => args.delta.data[i] = StartDelta(args.delta.ellMax).data[i]
        /\ pc \in {"returned", "raised"} =>
              args.delta.ellMax = loc.entry.delta.ellMax
        /\ pc = "raised" => (ret = Throw(ValueError) /\ args = loc.entry)

\* a second or later call has returned: OneOverK had left its first value
\* on entry, and a coefficient of delta of degree 2 has changed
C19_Witness ==
    /\ SuperMomentaReturned
    /\ loc.entry.OneOverK # StartOneOverK
    /\ args.OneOverK # loc.entry.OneOverK
    /\ args.delta.ellMax = 2
    /\ args.delta.data[5] # loc.entry.delta.data[5]

\* delta.EllMax() exceeds the EllMax() of the slice, the largest ellMax of
\* its members
DeltaExceedsSlice ==
    \A j \in 1..7 : args.delta.ellMax > self[j].ellMax

(* C23: BMSTransformationOnSlice(u, v, delta) called with a delta whose
   EllMax() exceeds the slice's EllMax() returns no bundle: the grid of
   delta has 2*delta.EllMax()+1 points a side and the grid of the conformal
   factor 2*EllMax()+1, so the call ends with the size-mismatch error and
   leaves no partial result. *)
C23_OversizedDeltaRaisesSizeMismatch ==
    (SliceEnded /\ DeltaExceedsSlice) =>
        /\ pc = "raised"
        /\ ret = Throw(VectorSizeMismatch)
        /\ loc = <<>>

\* a call with a boost and a delta of ellMax 3 that is not zero has ended
\* with an error on a slice of ellMax 2
C23_Witness ==
    /\ pc = "raised"
    /\ DeltaExceedsSlice
    /\ args.delta.ellMax = 3
    /\ ~IsZeroDelta(args.delta)
    /\ args.v.dir # zeroVector

\* lines 968-973 and 1065-1070 have run: iMin and iMax are chosen
WindowSelected == loc.Nslices > 0

\* the window lies in the series
WindowInSeries ==
    /\ 0 <= loc.iMin
    /\ loc.iMin <= loc.iMax
    /\ loc.iMax <= Len(self.t) - 1

(* C21: whenever the range check passes, t.front() <= min(u) <= max(u) <=
   t.back(), the window computed by Scri::BMSTransformation and
   SuperMomenta::BMSTransform has 0 <= iMin <= iMax <= t.size()-1 and
   brackets the required range: t[iMin] <= min(u) and t[iMax] >= max(u). *)
C21_WindowBracketsRequiredRange ==
    (/\ WindowSelected
     /\ At(self.t, 0) <= RequiredMin
     /\ RequiredMax <= At(self.t, Len(self.t) - 1)) =>
        /\ WindowInSeries
        /\ At(self.t, loc.iMin) <= RequiredMin
        /\ At(self.t, loc.iMax) >= RequiredMax

\* what holds of C21: the window lies in the series and brackets the range
\* of the samples the loop of lines 956-960 / 1053-1057 has scanned
C21_WindowBracketsScannedRange ==
    WindowSelected =>
        /\ WindowInSeries
        /\ At(self.t, loc.iMin) <= loc.uMin
        /\ At(self.t, loc.iMax) >= loc.uMax

-----------------------------------------------------------------------------
(* Modes::operator*, Modes::operator/ and SliceModes::SuperMomentum *)

\* what spinsfast_map2salm writes, per ellMax: the products of the model
\* reach twice the ellMax of their operands
KernelSalm ==
    { [L \in 0..(2 * SliceEllMax) |-> [i \in 1..N_lm(L) |-> Complex(x + i, x, 1)]] :
        x \in {0, 1} }

\* Modes(D, L) of lines 449-455 for the grid a DataGrid operator returned,
\* and the error if it raised one
ModesOfGridOutcome(r, L, drawn) ==
    IF r.kind = "throw" THEN r
    ELSE Return(ModesFromDataGrid(r.value, L, drawn[EllMaxFromDataGrid(r.value, L)]))

\* the statement A.s = ... of lines 477 and 484
WithSpin(r, spin) ==
    IF r.kind = "throw" THEN r ELSE Return([r.value EXCEPT !.s = spin])

\* a mutant: the operands put on the grid of the larger ellMax
ModesTimesOnTheLargerGrid(this, M, drawn) ==
    WithSpin(
        ModesOfGridOutcome(
            DataGridTimes(
                DataGridFromModes(this, 2 * Max(this.ellMax, M.ellMax) + 1,
                                  2 * Max(this.ellMax, M.ellMax) + 1),
                DataGridFromModes(M, 2 * Max(this.ellMax, M.ellMax) + 1,
                                  2 * Max(this.ellMax, M.ellMax) + 1)),
            Max(this.ellMax, M.ellMax), drawn),
        this.s + M.s)

\* Modes::operator*, lines 474-479, with L = EllMax() + M.EllMax()
ModesTimes(this, M, drawn) ==
    WithSpin(
        ModesOfGridOutcome(
            DataGridTimes(
                DataGridFromModes(this, 2 * (this.ellMax + M.ellMax) + 1,
                                  2 * (this.ellMax + M.ellMax) + 1),
                DataGridFromModes(M, 2 * (this.ellMax + M.ellMax) + 1,
                                  2 * (this.ellMax + M.ellMax) + 1)),
            Max(this.ellMax, M.ellMax), drawn),
        this.s + M.s)

\* Modes::operator/, lines 481-486
ModesOver(this, M, drawn) ==
    WithSpin(
        ModesOfGridOutcome(
            DataGridOver(
                DataGridFromModes(this, 2 * (this.ellMax + M.ellMax) + 1,
                                  2 * (this.ellMax + M.ellMax) + 1),
                DataGridFromModes(M, 2 * (this.ellMax + M.ellMax) + 1,
                                  2 * (this.ellMax + M.ellMax) + 1)),
            Max(this.ellMax, M.ellMax), drawn),
        this.s - M.s)

\* the sum of two results, or the error the first of them raised
PlusOutcome(r, q) ==
    IF r.kind = "throw" THEN r
    ELSE IF q.kind = "throw" THEN q
    ELSE ModesPlus(r.value, q.value)

\* the coefficients of M in the sums of line 775, sqrt(rad) entering as rad
Sampled(M) == [M EXCEPT !.data = Vector([i \in 1..Len(M.data) |-> Rational(M.data[i])])]

\* SliceModes::SuperMomentum, lines 773-776:
\* psi2 + sigma*sigmadot.bar() + sigma.bar().edth().edth()
SuperMomentum(slice, drawn) ==
    PlusOutcome(
        PlusOutcome(Return(slice[3]), ModesTimes(slice[6], ModesBar(slice[7]), drawn)),
        Return(Sampled(ModesEdth(ModesEdth(ModesBar(slice[6]))))))

\* the right-hand operands of the products and quotients: every spin of a
\* slice's members and every ellMax up to the slices'
ProductOperands ==
    { MakeModes(SliceSpins[j], L,
          [i \in 1..N_lm(L) |->
              IF EllOfIndex(i - 1, 0) < Abs(SliceSpins[j]) THEN zero
              ELSE Complex(i, j, 1)]) :
        j \in 1..5, L \in 0..SliceEllMax }

\* SliceModes(ellMax) with its seven members filled, lines 722-732
SlicesOfEllMax(L) ==
    { [j \in 1..7 |->
         MakeModes(SliceSpins[j], L,
            [i \in 1..N_lm(L) |->
                IF EllOfIndex(i - 1, 0) < Abs(SliceSpins[j]) THEN zero
                ELSE Complex(((seed + j + i) % 3) - 1, (seed * i) % 2, 1)])] :
      seed \in 1..MaxSliceSeed }

InitProduct ==
    /\ self \in UNION { SlicesOfEllMax(L) : L \in 0..SliceEllMax }
    /\ args = <<>>
    /\ pc = "idle"
    /\ loc = <<>>
    /\ ret = NoCall

\* the call of op has ended with r
ProductCallEnds(op, r) ==
    /\ ret' = r
    /\ pc' = Outcome(r)
    /\ loc' = [op |-> op]
    /\ UNCHANGED self

ModesMultiply ==
    /\ pc = "idle"
    /\ \E j \in 1..7, B \in ProductOperands, drawn \in KernelSalm :
         /\ args' = [A |-> self[j], B |-> B]
         /\ ProductCallEnds("operator*", ModesTimes(self[j], B, drawn))

ModesDivide ==
    /\ pc = "idle"
    /\ \E j \in 1..7, B \in ProductOperands, drawn \in KernelSalm :
         /\ args' = [A |-> self[j], B |-> B]
         /\ ProductCallEnds("operator/", ModesOver(self[j], B, drawn))

SuperMomentumCall ==
    /\ pc = "idle"
    /\ \E drawn \in KernelSalm :
         /\ args' = <<>>
         /\ ProductCallEnds("SuperMomentum", SuperMomentum(self, drawn))

ProductDone ==
    /\ pc \in {"returned", "raised"}
    /\ pc' = "idle"
    /\ args' = <<>>
    /\ loc' = <<>>
    /\ ret' = NoCall
    /\ UNCHANGED self

NextProduct ==
    \/ ModesMultiply
    \/ ModesDivide
    \/ SuperMomentumCall
    \/ ProductDone

SpecProduct == InitProduct /\ [][NextProduct]_vars

\* a call of op has ended
ProductEnded(op) == pc \in {"returned", "raised"} /\ loc.op = op

(* C22: the Modes product A*B and quotient A/B have ellMax
   A.EllMax() + B.EllMax() (not the larger of the two) and spin
   A.spin + B.spin (resp. A.spin - B.spin); SuperMomentum() of a slice whose
   members have spins +2,+1,0,-1,-2,+2,+2 and common ellMax L raises no
   spin-mismatch error and returns a Modes of spin 0 and ellMax 2L. *)
C22_ProductEllMaxIsTheSum ==
    /\ ProductEnded("operator*") =>
          /\ pc = "returned"
          /\ ret.value.ellMax = args.A.ellMax + args.B.ellMax
          /\ Len(ret.value.data) = N_lm(args.A.ellMax + args.B.ellMax)
          /\ ret.value.s = args.A.s + args.B.s
    /\ ProductEnded("operator/") =>
          /\ pc = "returned"
          /\ ret.value.ellMax = args.A.ellMax + args.B.ellMax
          /\ Len(ret.value.data) = N_lm(args.A.ellMax + args.B.ellMax)
          /\ ret.value.s = args.A.s - args.B.s
    /\ ProductEnded("SuperMomentum") =>
          /\ pc = "returned"
          /\ ret.value.s = 0
          /\ ret.value.ellMax = 2 * self[1].ellMax
          /\ Len(ret.value.data) = N_lm(2 * self[1].ellMax)

\* SuperMomentum() has returned for a slice of ellMax 2, with an ellMax
\* that is not the slice's
C22_Witness ==
    /\ ProductEnded("SuperMomentum")
    /\ pc = "returned"
    /\ self[1].ellMax = 2
    /\ ret.value.ellMax # self[1].ellMax

====
